---- MODULE Spec2Model ----
(***************************************************************************)
(* Schema versioning of cherrymusicserver.database: the definition model   *)
(* (defs.py), the table and index descriptors (sql.py), the transaction    *)
(* wrapper (connect.py), the per-database Updater (update.py) and the      *)
(* DatabaseController facade (__init__.py), over an abstract SQLite store. *)
(*                                                                         *)
(* Store semantics assumed (sqlite3 module of Python 3, legacy transaction *)
(* control): a DDL statement outside an open transaction is committed at   *)
(* once; only INSERT/UPDATE/DELETE open a transaction; executescript()     *)
(* commits first and then runs every statement in autocommit mode.         *)
(* PRAGMA index_list rows are (seqno, name, unique), as sql.py unpacks.    *)
(*                                                                         *)
(* Python values of mixed type are encoded as strings: booleans and flags  *)
(* as "True", "False", "1", "0", "", "AUTOINCREMENT"; default values as    *)
(* "none", "i:<int>", "s:<text>". The version None is the integer -1.      *)
(***************************************************************************)
EXTENDS Integers, Sequences, FiniteSets, TLC

\* ---------------------------------------------------------------- bounds
\* calls made on controllers and updaters in one behaviour
MaxCalls == 2

\* calls made on a controller of several databases in one behaviour
MaxMultiCalls == 2

\* ------------------------------------------------------- python encodings
None == -1

Truthy(x) == x \notin {"", "0", "False", "none"}

\* truth value of a version number: None and 0 are false
Falsy(x) == x = None \/ x = 0

\* x or y, on version numbers
PyOr(x, y) == IF Falsy(x) THEN y ELSE x

RECURSIVE SeqToSet(_)
SeqToSet(s) == IF s = <<>> THEN {} ELSE {Head(s)} \cup SeqToSet(Tail(s))

RECURSIVE JoinNames(_)
JoinNames(s) == IF s = <<>> THEN "" ELSE "_" \o Head(s) \o JoinNames(Tail(s))

\* ''.join(('\n\n- ' + s) for s in items), with "; " for the line breaks
RECURSIVE JoinItems(_)
JoinItems(s) == IF s = <<>> THEN "" ELSE "; - " \o Head(s) \o JoinItems(Tail(s))

\* ------------------------------------------------------------ defs.py
Property(name, type, notnull, default) ==
    [kind |-> "prop", name |-> name, type |-> type, notnull |-> notnull,
     default |-> default, unique |-> "False", auto |-> "False"]

Id(name, auto) ==
    [kind |-> "id", name |-> name, type |-> "int", notnull |-> "True",
     default |-> "none", unique |-> "False", auto |-> auto]

NoName == ""

IndexDefinition(on_type, keys, unique, name) ==
    [on_type |-> on_type, keys |-> keys, unique |-> unique, name |-> name]

NoTransition == [sql |-> <<>>, prompt |-> FALSE, reason |-> "", set |-> FALSE]

TransitionDefinition(sql, prompt, reason) ==
    [sql |-> sql, prompt |-> prompt, reason |-> reason, set |-> TRUE]

\* types: type name -> sequence of properties; a type that is not declared
\* is not in the domain (the class default None of defs.py)
DatabaseVersionDefinition(types, indexes, transition) ==
    [types |-> types, indexes |-> indexes, transition |-> transition]

\* ------------------------------------------------------------ sql.py: Column
\* the keys of Column.__datatypes
Datatypes == {"INTEGER", "INT", "TEXT", "BLOB", "REAL", "int", "str", "bytes", "float"}

\* __normalize_datatype; for a datatype that is no key it raises ValueError
\* (see TablesError) and there is no column
NormalizeDatatype(t) ==
    CASE t \in {"INTEGER", "INT", "int"} -> "INTEGER"
      [] t \in {"TEXT", "str"} -> "TEXT"
      [] t \in {"BLOB", "bytes"} -> "BLOB"
      [] t \in {"REAL", "float"} -> "REAL"
      [] OTHER -> "ValueError"

Column(name, type, notnull, default, pkey, unique) ==
    [name |-> name, type |-> NormalizeDatatype(type), notnull |-> notnull,
     default |-> default, pkey |-> pkey, unique |-> unique]

ColumnFromProperty(prop) ==
    IF prop.kind = "id"
    THEN Column(prop.name, "int", "True", "none",
                IF Truthy(prop.auto) THEN "AUTOINCREMENT" ELSE "True", "False")
    ELSE Column(prop.name, prop.type, prop.notnull, prop.default, "", prop.unique)

\* typefactory(default) of from_rowinfo: int() of a numeral, str() otherwise;
\* a ValueError leaves the literal as it is
CoerceDefault(ctype, default) ==
    IF NormalizeDatatype(ctype) = "INTEGER" /\ default = "s:0" THEN "i:0" ELSE default

\* row: a row of PRAGMA table_info without its cid
ColumnFromRowinfo(row) ==
    Column(row.name, row.type, row.notnull,
           IF row.dflt = "none" THEN "none" ELSE CoerceDefault(row.type, row.dflt),
           row.pk, "")

\* default.strip().lstrip('(').rstrip(')') on the literals of the model
StripParens(default) ==
    CASE default = "s:(now)" -> "s:now"
      [] default = "s:(0)" -> "s:0"
      [] OTHER -> default

ColumnNormal(col) ==
    [name |-> col.name, type |-> col.type,
     notnull |-> IF Truthy(col.notnull) THEN 1 ELSE 0,
     default |-> StripParens(col.default),
     pkey |-> IF Truthy(col.pkey) THEN 1 ELSE 0]

\* what "DEFAULT %s" % default leaves in the catalog (dflt_value)
SqlDefault(default) ==
    CASE default = "i:0" -> "s:0"
      [] default = "s:(now)" -> "s:now"
      [] OTHER -> default

\* the catalog row that the column's sql text produces
ColumnSql(col) ==
    [name |-> col.name, type |-> col.type,
     notnull |-> IF Truthy(col.notnull) THEN "1" ELSE "0",
     dflt |-> SqlDefault(col.default),
     pk |-> IF Truthy(col.pkey) THEN "1" ELSE "0"]

\* ------------------------------------------------------------ the store
\* tables  : table name -> catalog rows of its columns (PRAGMA table_info)
\* indexes : set of index normals (name, table, columns, unique)
\* meta    : the version values of the rows of _meta_version, oldest first
\* pend    : rows inserted by the open transaction, not yet committed
\* log     : the statements and decisions of the running call, in order
\* err     : "" or the exception that ended the call
\* snap    : the store as it was when the running migration step began
MetaName == "_meta_version"

EmptyStore == [tables |-> <<>>, indexes |-> {}, meta |-> <<>>]

Event(kind, ver, name) == [kind |-> kind, ver |-> ver, name |-> name]

Begin(store) ==
    [tables |-> store.tables, indexes |-> store.indexes, meta |-> store.meta,
     pend |-> <<>>, log |-> <<>>, err |-> "", snap |-> store]

StoreOf(c) == [tables |-> c.tables, indexes |-> c.indexes, meta |-> c.meta]

Logged(c, e) == [c EXCEPT !.log = Append(@, e)]

Raise(c, e) == [c EXCEPT !.err = e]

Without(f, k) == [x \in DOMAIN f \ {k} |-> f[x]]

\* environment of one call: whether the live tables hold rows that make the
\* store refuse a data-dependent statement
Envs == [strict : BOOLEAN, dml : BOOLEAN]

\* ------------------------------------------------------------ connect.py
\* BoundConnector.transaction: "with con" commits on normal exit and rolls
\* back the open transaction on an exception
\* a commit whose inserted rows take the place of the rows of the tracking
\* table
CommitReplacing(c) ==
    [c EXCEPT !.meta = IF c.pend = <<>> THEN @ ELSE c.pend, !.pend = <<>>]

Commit(c) == [c EXCEPT !.meta = @ \o c.pend, !.pend = <<>>]

Rollback(c) == [c EXCEPT !.pend = <<>>]

TransactionExit(c) == IF c.err = "" THEN Commit(c) ELSE Rollback(c)

\* ------------------------------------------------------------ sql.py: TableDescriptor
TableExists(c, tablename) == tablename \in DOMAIN c.tables

GetTablelayout(c, tablename) ==
    [i \in 1..Len(c.tables[tablename]) |-> ColumnFromRowinfo(c.tables[tablename][i])]

ColumnNames(cols) == {cols[i].name : i \in 1..Len(cols)}

ColumnByName(cols, name) == cols[CHOOSE i \in 1..Len(cols) : cols[i].name = name]

\* ALTER TABLE ... ADD COLUMN: refused for a PRIMARY KEY or UNIQUE column,
\* and, when the table holds rows, for NOT NULL without a default and for
\* a default that is not constant
AddColumnRefused(col, env) ==
    \/ Truthy(col.pkey)
    \/ Truthy(col.unique)
    \/ env.strict /\ Truthy(col.notnull) /\ col.default = "none"
    \/ env.strict /\ col.default = "s:(now)"

RECURSIVE AddMissingColumns(_, _, _, _, _)
AddMissingColumns(c, tablename, columns, existing, env) ==
    IF columns = <<>> \/ c.err # "" THEN c
    ELSE LET col == Head(columns) IN
         IF col.name \in existing
         THEN AddMissingColumns(c, tablename, Tail(columns), existing, env)
         ELSE IF AddColumnRefused(col, env)
              THEN Raise(Logged(c, Event("add_column", None, tablename)), "OperationalError")
              ELSE AddMissingColumns(
                     Logged([c EXCEPT !.tables[tablename] = Append(@, ColumnSql(col))],
                            Event("add_column", None, tablename)),
                     tablename, Tail(columns), existing, env)

RECURSIVE MapColumnSql(_)
MapColumnSql(columns) ==
    IF columns = <<>> THEN <<>>
    ELSE <<ColumnSql(Head(columns))>> \o MapColumnSql(Tail(columns))

\* the name sqlite gives the index it makes for the k-th UNIQUE constraint
\* of a table
ConstraintIndexName(tablename, k) ==
    "sqlite_autoindex_" \o tablename \o (CASE k = 1 -> "_1" [] k = 2 -> "_2" [] OTHER -> "_n")

\* the indexes sqlite makes by itself for the UNIQUE columns of a new table
\* (none for an INTEGER PRIMARY KEY, which is the rowid)
ConstraintIndexes(tablename, columns) ==
    LET uniq == {i \in 1..Len(columns) : Truthy(columns[i].unique)} IN
    {[name |-> ConstraintIndexName(tablename, Cardinality({j \in uniq : j <= i})),
      table |-> tablename, columns |-> <<columns[i].name>>, unique |-> TRUE] : i \in uniq}

\* CREATE TABLE: refused without columns and with more than one PRIMARY KEY
CreateTable(c, tablename, columns) ==
    IF columns = <<>> \/ Cardinality({i \in 1..Len(columns) : Truthy(columns[i].pkey)}) > 1
    THEN Raise(Logged(c, Event("create_table", None, tablename)), "OperationalError")
    ELSE Logged([c EXCEPT !.tables = (tablename :> MapColumnSql(columns)) @@ @,
                          !.indexes = @ \cup ConstraintIndexes(tablename, columns)],
                Event("create_table", None, tablename))

\* createOrAlterTable that removes the live columns the definition does not
\* have
CreateOrAlterTablePruning(c, tablename, columns, env) ==
    IF c.err # "" THEN c
    ELSE IF TableExists(c, tablename)
         THEN LET kept == SelectSeq(c.tables[tablename],
                                    LAMBDA r : r.name \in ColumnNames(columns))
                  c1 == [c EXCEPT !.tables[tablename] = kept]
              IN AddMissingColumns(c1, tablename, columns,
                                   ColumnNames(GetTablelayout(c1, tablename)), env)
         ELSE CreateTable(c, tablename, columns)

CreateOrAlterTable(c, tablename, columns, env) ==
    IF c.err # "" THEN c
    ELSE IF TableExists(c, tablename)
         THEN AddMissingColumns(c, tablename, columns,
                                ColumnNames(GetTablelayout(c, tablename)), env)
         ELSE CreateTable(c, tablename, columns)

\* verify that compares the names of the live columns only
TableVerifiesByName(c, tablename, columns) ==
    /\ TableExists(c, tablename)
    /\ ColumnNames(GetTablelayout(c, tablename)) \subseteq ColumnNames(columns)

\* TableDescriptor.verify as a predicate: no assertion fails
TableVerifies(c, tablename, columns) ==
    /\ TableExists(c, tablename)
    /\ LET live == GetTablelayout(c, tablename) IN
       \A i \in 1..Len(live) :
           /\ live[i].name \in ColumnNames(columns)
           /\ ColumnNormal(live[i]) = ColumnNormal(ColumnByName(columns, live[i].name))

\* DROP TABLE IF EXISTS: sqlite drops the indexes of the table with it
DropTableIfExists(c, tablename) ==
    IF c.err # "" THEN c
    ELSE Logged([c EXCEPT !.tables = Without(@, tablename),
                          !.indexes = {i \in @ : i.table # tablename},
                          !.meta = IF tablename = MetaName THEN <<>> ELSE @],
                Event("drop_table", None, tablename))

\* ------------------------------------------------------------ sql.py: IndexDescriptor
IndexCreateName(table, columns, unique) ==
    (IF unique THEN "uidx" ELSE "idx") \o "_" \o table \o JoinNames(columns)

IndexDescriptor(table, columns, unique, name) ==
    [table |-> table, columns |-> columns, unique |-> unique,
     name |-> IF name = NoName THEN IndexCreateName(table, columns, unique) ELSE name]

IndexFromDef(idxdef) ==
    IndexDescriptor(idxdef.on_type, idxdef.keys, idxdef.unique, idxdef.name)

IndexNormal(idx) ==
    [name |-> idx.name, table |-> idx.table, columns |-> idx.columns, unique |-> idx.unique]

\* table = "" fetches the indexes of every table
FetchNormalExisting(c, table) ==
    {i \in c.indexes : table = "" \/ i.table = table}

IndexExists(c, idx) == IndexNormal(idx) \in FetchNormalExisting(c, idx.table)

\* CREATE INDEX: refused when the name is taken, the table is missing or a
\* key is not a column of the table
IndexCreate(c, idx) ==
    IF c.err # "" THEN c
    ELSE IF \/ \E i \in c.indexes : i.name = idx.name
            \/ ~ TableExists(c, idx.table)
            \/ ~ (SeqToSet(idx.columns) \subseteq ColumnNames(c.tables[idx.table]))
         THEN Raise(Logged(c, Event("create_index", None, idx.name)), "OperationalError")
         ELSE Logged([c EXCEPT !.indexes = @ \cup {IndexNormal(idx)}],
                     Event("create_index", None, idx.name))

\* an index of the store that belongs to a UNIQUE constraint
IsConstraintIndex(c, name) ==
    \E i \in c.indexes : /\ i.name = name
                          /\ \E k \in 1..2 : name = ConstraintIndexName(i.table, k)

\* drop_if_exists that leaves the index in the store
IndexDropIfExistsKept(c, name) ==
    IF c.err # "" THEN c ELSE Logged(c, Event("drop_index", None, name))

\* DROP INDEX IF EXISTS: refused for the index of a constraint
IndexDropIfExists(c, name) ==
    IF c.err # "" THEN c
    ELSE IF IsConstraintIndex(c, name)
         THEN Raise(Logged(c, Event("drop_index", None, name)), "OperationalError")
         ELSE Logged([c EXCEPT !.indexes = {i \in @ : i.name # name}],
                     Event("drop_index", None, name))

\* ------------------------------------------------------------ transition scripts
\* a script is a sequence of statements; cols are catalog rows
Rename(t, t2) == [op |-> "rename", t |-> t, t2 |-> t2, cols |-> <<>>]
Create(t, cols) == [op |-> "create", t |-> t, t2 |-> "", cols |-> cols]
Copy(t, t2) == [op |-> "copy", t |-> t, t2 |-> t2, cols |-> <<>>]
Drop(t) == [op |-> "drop", t |-> t, t2 |-> "", cols |-> <<>>]

StmtRefused(c, st, env) ==
    CASE st.op = "rename" -> ~ TableExists(c, st.t) \/ TableExists(c, st.t2)
      [] st.op = "create" -> TableExists(c, st.t)
      [] st.op = "copy" -> ~ TableExists(c, st.t) \/ ~ TableExists(c, st.t2) \/ ~ env.dml
      [] st.op = "drop" -> ~ TableExists(c, st.t)

StmtEffect(c, st) ==
    CASE st.op = "rename" ->
           [c EXCEPT !.tables = (st.t2 :> c.tables[st.t]) @@ Without(@, st.t),
                     !.indexes = {IF i.table = st.t THEN [i EXCEPT !.table = st.t2] ELSE i
                                  : i \in @}]
      [] st.op = "create" -> [c EXCEPT !.tables = (st.t :> st.cols) @@ @]
      [] st.op = "copy" -> c
      [] st.op = "drop" ->
           [c EXCEPT !.tables = Without(@, st.t),
                     !.indexes = {i \in @ : i.table # st.t}]

RECURSIVE RunStatements(_, _, _)
RunStatements(c, sql, env) ==
    IF sql = <<>> \/ c.err # "" THEN c
    ELSE LET st == Head(sql)
             d == Logged(c, Event("stmt", None, st.op))
         IN IF StmtRefused(c, st, env)
            THEN Raise(d, "OperationalError")
            ELSE RunStatements(StmtEffect(d, st), Tail(sql), env)

\* Connection.executescript: COMMIT, then each statement in autocommit mode
ExecuteScript(c, sql, env) ==
    IF c.err # "" THEN c ELSE RunStatements(Commit(c), sql, env)

\* ------------------------------------------------------------ update.py: Updater
\* desc: a DatabaseDefinition, [versions: version number -> DatabaseVersion];
\* the types of a version are a sequence of [name, props], in dict order
TypeDef(name, props) == [name |-> name, props |-> props]

MetaColumns ==
    << Column("version", "int", "0", "none", "", ""),
       Column("_created", "int", "True", "s:(now)", "", "") >>

Max(S) == CHOOSE x \in S : \A y \in S : y <= x

RECURSIVE SortedSeq(_)
SortedSeq(S) ==
    IF S = {} THEN <<>>
    ELSE LET m == CHOOSE x \in S : \A y \in S : x <= y
         IN <<m>> \o SortedSeq(S \ {m})

RECURSIVE SetToSeq(_)
SetToSeq(S) ==
    IF S = {} THEN <<>>
    ELSE LET m == CHOOSE x \in S : TRUE IN <<m>> \o SetToSeq(S \ {m})

\* SELECT MAX(version) FROM _meta_version, on a connection of its own:
\* it sees committed rows only; NULL rows do not count
Version(c) ==
    LET vs == {c.meta[i] : i \in 1..Len(c.meta)} \ {None}
    IN IF vs = {} THEN None ELSE Max(vs)

\* _setversion that stamps the number after the one it is given
SetVersionNext(c, value) ==
    IF c.err # "" THEN c
    ELSE Logged([c EXCEPT !.pend = Append(@, value + 1)], Event("stamp", value + 1, ""))

SetVersion(c, value) ==
    IF c.err # "" THEN c
    ELSE Logged([c EXCEPT !.pend = Append(@, value)], Event("stamp", value, ""))

Target(desc) == Max(DOMAIN desc.versions)

MissingVersions(c, desc) ==
    LET min == PyOr(Version(c), -1) + 1
        max == Target(desc)
    IN SortedSeq({k \in DOMAIN desc.versions : min <= k /\ k <= max})

RECURSIVE TransitionsOf(_, _)
TransitionsOf(desc, vnums) ==
    IF vnums = <<>> THEN <<>>
    ELSE (IF desc.versions[Head(vnums)].transition.set
          THEN <<desc.versions[Head(vnums)].transition>> ELSE <<>>)
         \o TransitionsOf(desc, Tail(vnums))

Transitions(c, desc) ==
    IF Version(c) = None THEN <<>> ELSE TransitionsOf(desc, MissingVersions(c, desc))

\* content: the entries of sqlite_master other than the tracking table and
\* the store's own; every index belongs to a table
Content(c) == DOMAIN c.tables \ {MetaName}

InitMeta(c, env) ==
    LET c1 == CreateOrAlterTable(c, MetaName, MetaColumns, env)
        c2 == IF Content(c) # {} /\ Falsy(Version(c1))
              THEN SetVersion(c1, 0) ELSE c1
    IN TransactionExit(c2)

RECURSIVE TypesToTables(_)
TypesToTables(types) ==
    IF types = <<>> THEN <<>>
    ELSE << [tablename |-> Head(types).name,
             columns |-> [i \in 1..Len(Head(types).props) |->
                             ColumnFromProperty(Head(types).props[i])]] >>
         \o TypesToTables(Tail(types))

RECURSIVE IndexdefsToIndexes(_)
IndexdefsToIndexes(indexdefs) ==
    IF indexdefs = <<>> THEN <<>>
    ELSE <<IndexFromDef(Head(indexdefs))>> \o IndexdefsToIndexes(Tail(indexdefs))

Declared(desc, vnum) == vnum \in DOMAIN desc.versions

Tables(desc, vnum) ==
    IF vnum = None THEN <<>> ELSE TypesToTables(desc.versions[vnum].types)

Indexes(desc, vnum) ==
    IF vnum = None THEN <<>> ELSE IndexdefsToIndexes(desc.versions[vnum].indexes)

\* _types_to_tables builds every column of every type before any table is
\* touched: "" or the exception of Column.from_property
TablesError(desc, vnum) ==
    IF vnum # None
       /\ \E i \in 1..Len(desc.versions[vnum].types) :
              \E j \in 1..Len(desc.versions[vnum].types[i].props) :
                  /\ desc.versions[vnum].types[i].props[j].kind = "prop"
                  /\ desc.versions[vnum].types[i].props[j].type \notin Datatypes
    THEN "ValueError" ELSE ""

\* the tables of the versions vnums, one after the other (Updater.reset)
RECURSIVE AllTables(_, _)
AllTables(desc, vnums) ==
    IF vnums = <<>> THEN <<>>
    ELSE Tables(desc, Head(vnums)) \o AllTables(desc, Tail(vnums))

RECURSIVE CreateOrAlterAll(_, _, _)
CreateOrAlterAll(c, tabs, env) ==
    IF tabs = <<>> \/ c.err # "" THEN c
    ELSE CreateOrAlterAll(
             CreateOrAlterTable(c, Head(tabs).tablename, Head(tabs).columns, env),
             Tail(tabs), env)

\* versions[vnum] of a number that is not declared is an AttributeError
AutoTables(c, desc, vnum, env) ==
    IF c.err # "" THEN c
    ELSE IF vnum # None /\ ~ Declared(desc, vnum) THEN Raise(c, "AttributeError")
    ELSE IF TablesError(desc, vnum) # "" THEN Raise(c, TablesError(desc, vnum))
    ELSE CreateOrAlterAll(c, Tables(desc, vnum), env)

RECURSIVE CreateMissingIndexes(_, _)
CreateMissingIndexes(c, defined) ==
    IF defined = <<>> \/ c.err # "" THEN c
    ELSE CreateMissingIndexes(
             IF IndexExists(c, Head(defined)) THEN c ELSE IndexCreate(c, Head(defined)),
             Tail(defined))

RECURSIVE DropIndexes(_, _)
DropIndexes(c, names) ==
    IF names = <<>> \/ c.err # "" THEN c
    ELSE DropIndexes(IndexDropIfExists(c, Head(names)), Tail(names))

\* _autoindexes that creates the missing indexes and drops none
AutoIndexesKeep(c, desc, vnum, env) ==
    IF c.err # "" THEN c
    ELSE IF vnum # None /\ ~ Declared(desc, vnum) THEN Raise(c, "AttributeError")
    ELSE CreateMissingIndexes(c, Indexes(desc, vnum))

AutoIndexes(c, desc, vnum, env) ==
    IF c.err # "" THEN c
    ELSE IF vnum # None /\ ~ Declared(desc, vnum) THEN Raise(c, "AttributeError")
    ELSE LET defined == Indexes(desc, vnum)
             c1 == CreateMissingIndexes(c, defined)
             defined_normals == {IndexNormal(defined[i]) : i \in 1..Len(defined)}
             drop == {i.name : i \in FetchNormalExisting(c1, "") \ defined_normals}
         IN IF c1.err # "" THEN c1 ELSE DropIndexes(c1, SetToSeq(drop))

AutoupdateWithinVersion(c, desc, vnum, env) ==
    IF c.err # "" THEN c
    ELSE TransactionExit(AutoIndexes(AutoTables(c, desc, vnum, env), desc, vnum, env))

\* _jump_to_version that creates the types of every declared version
JumpToVersionAllTypes(c, desc, vnum, env) ==
    IF c.err # "" THEN c
    ELSE TransactionExit(
             SetVersion(
                 AutoIndexes(
                     CreateOrAlterAll(c, AllTables(desc, SortedSeq(DOMAIN desc.versions)), env),
                     desc, vnum, env),
                 vnum))

JumpToVersion(c, desc, vnum, env) ==
    IF c.err # "" THEN c
    ELSE TransactionExit(
             SetVersion(AutoIndexes(AutoTables(c, desc, vnum, env), desc, vnum, env), vnum))

MakeTransition(c, transition, vnum, env) ==
    IF c.err # "" THEN c
    ELSE IF transition.set /\ transition.sql # <<>>
         THEN ExecuteScript(Logged(c, Event("script", vnum, "")), transition.sql, env)
         ELSE c

\* _update_to_version that writes the stamp before the transition and the
\* reconciliation of the version
UpdateToVersionStampFirst(c, desc, vnum, env) ==
    IF c.err # "" THEN c
    ELSE LET c0 == Logged([c EXCEPT !.snap = StoreOf(c)], Event("step", vnum, ""))
             c1 == MakeTransition(SetVersion(c0, vnum), desc.versions[vnum].transition,
                                  vnum, env)
         IN TransactionExit(AutoIndexes(AutoTables(c1, desc, vnum, env), desc, vnum, env))

UpdateToVersion(c, desc, vnum, env) ==
    IF c.err # "" THEN c
    ELSE LET c0 == Logged([c EXCEPT !.snap = StoreOf(c)], Event("step", vnum, ""))
             c1 == MakeTransition(c0, desc.versions[vnum].transition, vnum, env)
         IN TransactionExit(
                SetVersion(AutoIndexes(AutoTables(c1, desc, vnum, env), desc, vnum, env), vnum))

VersionVerifies(c, desc, vnum) ==
    /\ Version(c) = vnum
    /\ \A i \in 1..Len(Tables(desc, vnum)) :
           TableVerifies(c, Tables(desc, vnum)[i].tablename, Tables(desc, vnum)[i].columns)
    /\ \A i \in 1..Len(Indexes(desc, vnum)) : IndexExists(c, Indexes(desc, vnum)[i])

VerifyVersion(c, desc, vnum) ==
    IF c.err # "" THEN c
    ELSE IF ~ Declared(desc, vnum) THEN Raise(c, "AttributeError")
    ELSE IF VersionVerifies(c, desc, vnum)
         THEN Logged(c, Event("verified", vnum, ""))
         ELSE Raise(c, "AssertionError")

\* Updater.__init__
UpdaterInit(c, desc, env) ==
    LET c1 == InitMeta(c, env)
        version == Version(c1)
    IN IF c1.err # "" \/ version = None THEN c1
       ELSE VerifyVersion(AutoupdateWithinVersion(c1, desc, version, env), desc, version)

\* needed that reports an update whatever the stamped version is
NeededAlways(c, desc) == Version(c) = None \/ Version(c) <= Target(desc)

\* needed that reports an update for a database without a version only
NeededUnsetOnly(c, desc) == Version(c) = None

Needed(c, desc) == Version(c) = None \/ Version(c) < Target(desc)

RECURSIVE PromptReasons(_)
PromptReasons(ts) ==
    IF ts = <<>> THEN <<>>
    ELSE (IF Head(ts).prompt THEN <<Head(ts).reason>> ELSE <<>>) \o PromptReasons(Tail(ts))

Prompts(c, desc) == PromptReasons(Transitions(c, desc))

\* Updater.agreed: the consent request is logged with the text of its items;
\* consent is the answer
Agreed(c, desc, consent) == Prompts(c, desc) = <<>> \/ consent

AskConsent(c, desc) ==
    IF Prompts(c, desc) = <<>> THEN c
    ELSE Logged(c, Event("consent", None, JoinItems(Prompts(c, desc))))

RECURSIVE UpdateThrough(_, _, _, _)
UpdateThrough(c, desc, vnums, env) ==
    IF vnums = <<>> \/ c.err # "" THEN c
    ELSE UpdateThrough(
             VerifyVersion(UpdateToVersion(c, desc, Head(vnums), env), desc, Head(vnums)),
             desc, Tail(vnums), env)

\* run() that takes a database without a version through every declared
\* version instead of jumpstarting it
UpdaterRunStepwise(c, desc, env) ==
    IF c.err # "" THEN c
    ELSE UpdateThrough(Logged(c, Event("run", Version(c), "")), desc,
                       MissingVersions(c, desc), env)

\* Updater.run
UpdaterRun(c, desc, env) ==
    IF c.err # "" THEN c
    ELSE LET r == Logged(c, Event("run", Version(c), "")) IN
         IF Version(c) = None
         THEN VerifyVersion(JumpToVersion(r, desc, Target(desc), env), desc, Target(desc))
         ELSE UpdateThrough(r, desc, MissingVersions(c, desc), env)

RECURSIVE DropTables(_, _)
DropTables(c, tabs) ==
    IF tabs = <<>> \/ c.err # "" THEN c
    ELSE DropTables(DropTableIfExists(c, Head(tabs).tablename), Tail(tabs))

\* Updater.reset
UpdaterReset(c, desc, env) ==
    IF c.err # "" THEN c
    ELSE LET version == Version(c) IN
         IF version # None /\ ~ Declared(desc, version) THEN Raise(c, "AttributeError")
         ELSE IF \E v \in DOMAIN desc.versions :
                     (version = None \/ v = version) /\ TablesError(desc, v) # ""
              THEN Raise(c, "ValueError")
         ELSE LET tabs == IF version = None
                          THEN AllTables(desc, SortedSeq(DOMAIN desc.versions))
                          ELSE Tables(desc, version)
                  c1 == DropTableIfExists(DropTables(c, tabs), MetaName)
                  c2 == CreateOrAlterTable(c1, MetaName, MetaColumns, env)
              IN TransactionExit(SetVersion(c2, None))

\* ------------------------------------------------------------ __init__.py: DatabaseController
\* ensure_requirements for the registered database; the result carries the
\* final connection state, the store as the Updater's construction left it
\* and the returned value ("error" when an exception leaves the call)
Outcome(c, upd, res) == [c |-> c, upd |-> upd, res |-> res]

\* ensure_requirements that runs the update whatever the consent decision
EnsureRequirementsUngated(store, desc, autoconsent, consent, env) ==
    LET u == UpdaterInit(Begin(store), desc, env) IN
    IF u.err # "" THEN Outcome(u, StoreOf(u), "error")
    ELSE IF ~ Needed(u, desc) THEN Outcome(u, StoreOf(u), "True")
    ELSE LET a == IF autoconsent THEN u ELSE AskConsent(u, desc)
             r == UpdaterRun(a, desc, env)
         IN Outcome(r, StoreOf(u),
                    IF r.err # "" THEN "error"
                    ELSE IF autoconsent \/ Agreed(u, desc, consent) THEN "True" ELSE "False")

EnsureRequirements(store, desc, autoconsent, consent, env) ==
    LET u == UpdaterInit(Begin(store), desc, env) IN
    IF u.err # "" THEN Outcome(u, StoreOf(u), "error")
    ELSE IF ~ Needed(u, desc) THEN Outcome(u, StoreOf(u), "True")
    ELSE LET a == IF autoconsent THEN u ELSE AskConsent(u, desc) IN
         IF ~ (autoconsent \/ Agreed(u, desc, consent))
         THEN Outcome(a, StoreOf(u), "False")
         ELSE LET r == UpdaterRun(a, desc, env)
              IN Outcome(r, StoreOf(u), IF r.err = "" THEN "True" ELSE "error")

\* resetdb(dbname) with the registered name
ResetDb(store, desc, env) ==
    LET u == UpdaterInit(Begin(store), desc, env)
        r == UpdaterReset(u, desc, env)
    IN Outcome(r, StoreOf(u), IF r.err = "" THEN "None" ELSE "error")

\* ------------------------------------------------------------ definitions in use
Row(name, type, notnull, dflt, pk) ==
    [name |-> name, type |-> type, notnull |-> notnull, dflt |-> dflt, pk |-> pk]

PropA == Property("a", "int", "False", "none")
PropB == Property("b", "int", "False", "none")
PropMod == Property("_mod", "int", "True", "s:(now)")
PropId == Id("_id", "True")

\* the definition of test_database.py
TestV0 == DatabaseVersionDefinition(<<TypeDef("test", <<PropA, PropB>>)>>, <<>>, NoTransition)

TestScript ==
    << Rename("test", "_bak_test"),
       Create("test", << Row("_id", "INTEGER", "1", "none", "1"),
                         Row("_mod", "INTEGER", "1", "s:now", "0"),
                         Row("a", "INTEGER", "0", "none", "0"),
                         Row("b", "INTEGER", "0", "none", "0") >>),
       Copy("test", "_bak_test"),
       Drop("_bak_test") >>

TestV1 ==
    DatabaseVersionDefinition(
        <<TypeDef("test", <<PropId, PropMod, PropA, PropB>>)>>,
        <<IndexDefinition("test", <<"a", "b">>, FALSE, NoName)>>,
        TransitionDefinition(TestScript, TRUE, "copy test table"))

DefV0 == [versions |-> (0 :> TestV0)]

DefTest == [versions |-> (0 :> TestV0) @@ (1 :> TestV1)]

\* version 0 redeclared with one more property and one more type, within
\* the version
DefAdd ==
    [versions |->
        (0 :> DatabaseVersionDefinition(
                  <<TypeDef("test", <<PropA, PropB, PropMod>>), TypeDef("addtype", <<PropA>>)>>,
                  <<>>, NoTransition))
        @@ (1 :> [TestV1 EXCEPT !.types = @ \o <<TypeDef("addtype", <<PropA>>)>>])]

\* a type of version 0 that version 2 no longer declares; no version 1
DefLeftover ==
    [versions |->
        (0 :> DatabaseVersionDefinition(
                  <<TypeDef("test", <<PropA, PropB>>), TypeDef("old", <<PropA>>)>>,
                  <<>>, NoTransition))
        @@ (2 :> DatabaseVersionDefinition(
                  <<TypeDef("test", <<PropA, PropB>>)>>,
                  <<IndexDefinition("test", <<"a">>, TRUE, "byname")>>,
                  TransitionDefinition(<<>>, FALSE, "")))]

\* a transition declared for version 0
DefZero ==
    [versions |->
        (0 :> DatabaseVersionDefinition(
                  <<TypeDef("test", <<PropA, PropB>>)>>, <<>>,
                  TransitionDefinition(<<Create("ran_v0", <<Row("a", "INT", "0", "s:0", "0")>>)>>,
                                       TRUE, "zero")))]

\* version 1 drops a property without a transition that removes the column
DefShrink ==
    [versions |->
        (0 :> TestV0)
        @@ (1 :> DatabaseVersionDefinition(<<TypeDef("test", <<PropA>>)>>, <<>>, NoTransition))]

\* version 0 of DefV0 redeclared with one more property, one more type and
\* an index
DefGrow ==
    [versions |->
        (0 :> DatabaseVersionDefinition(
                  <<TypeDef("test", <<PropA, PropB, PropMod>>), TypeDef("addtype", <<PropA>>)>>,
                  <<IndexDefinition("addtype", <<"a">>, TRUE, "addindex")>>, NoTransition))]

\* DefGrow without its index
DefBare == [versions |-> (0 :> [DefGrow.versions[0] EXCEPT !.indexes = <<>>])]

\* a type with two Ids
DefTwoIds ==
    [versions |->
        (0 :> DatabaseVersionDefinition(
                  <<TypeDef("test", <<PropId, Id("_id2", "False"), PropA, PropB>>)>>,
                  <<>>, NoTransition))]

\* a property whose type is none of int, float, str, bytes
DefBadType ==
    [versions |->
        (0 :> DatabaseVersionDefinition(
                  <<TypeDef("test", <<PropA, PropB, Property("c", "dict", "False", "none")>>)>>,
                  <<>>, NoTransition))]

\* testdef with such a property in version 1
DefBadStep ==
    [versions |->
        (0 :> TestV0)
        @@ (1 :> [TestV1 EXCEPT !.types =
                     <<TypeDef("test", <<PropId, PropMod, PropA, PropB,
                                        Property("c", "bool", "False", "none")>>)>>])]

\* DefGrow with its index redeclared under the same name as not unique
DefReindex ==
    [versions |->
        (0 :> [DefGrow.versions[0] EXCEPT
                  !.indexes = <<IndexDefinition("addtype", <<"a">>, FALSE, "addindex")>>])]

\* DefV0 with a plain tuple in the place of a Property
DefMalformed ==
    [versions |->
        (0 :> DatabaseVersionDefinition(
                  <<TypeDef("test", <<PropA, [PropB EXCEPT !.kind = "tuple"]>>)>>,
                  <<>>, NoTransition))]

\* a definition whose lowest version is 1
DefFromOne == [versions |-> (1 :> TestV1)]

\* the deprecated unique flag of Property
PropUnique == [PropB EXCEPT !.unique = "True"]

\* DefV0 with the property b declared unique
DefUnique ==
    [versions |->
        (0 :> DatabaseVersionDefinition(<<TypeDef("test", <<PropA, PropUnique>>)>>,
                                        <<>>, NoTransition))]

\* DefUnique with a declared index
DefUniqueIndexed ==
    [versions |->
        (0 :> [DefUnique.versions[0] EXCEPT
                  !.indexes = <<IndexDefinition("test", <<"a">>, FALSE, NoName)>>])]

\* testdef with a second type in version 1 that has a unique property
DefUniqueStep ==
    [versions |->
        (0 :> TestV0)
        @@ (1 :> [TestV1 EXCEPT !.types = @ \o <<TypeDef("uniq", <<PropA, PropUnique>>)>>])]

Defs ==
    <<DefV0, DefTest, DefAdd, DefLeftover, DefZero, DefShrink, DefGrow, DefBare,
      DefTwoIds, DefBadType, DefBadStep, DefReindex,
      DefUnique, DefUniqueIndexed, DefUniqueStep, DefFromOne, DefMalformed>>

\* the definitions the factories of defs.py refuse
Malformed == {17}

\* the definitions that use the unique flag
WithUnique == {13, 14, 15}

\* the definitions that break a rule the documentation of defs.py gives for
\* Property and Id, and the others
IllFormed == {9, 10, 11}

WellFormed == (1..Len(Defs)) \ (IllFormed \cup WithUnique \cup Malformed)

\* an unversioned database with content: two tables and an index, no
\* tracking table
LegacyStore ==
    [tables |-> ("test" :> << Row("a", "INTEGER", "0", "none", "0"),
                              Row("b", "INT", "0", "none", "0") >>)
                @@ ("old" :> << Row("a", "INTEGER", "0", "none", "0") >>),
     indexes |-> {[name |-> "legacy_idx", table |-> "old", columns |-> <<"a">>,
                   unique |-> FALSE]},
     meta |-> <<>>]

InitStores == {EmptyStore, LegacyStore}

\* an unversioned database whose table test was created with b UNIQUE
LegacyUnique ==
    [tables |-> ("test" :> << Row("a", "INTEGER", "0", "none", "0"),
                              Row("b", "INTEGER", "0", "none", "0") >>),
     indexes |-> ConstraintIndexes("test", <<ColumnFromProperty(PropA),
                                             ColumnFromProperty(PropUnique)>>),
     meta |-> <<>>]

\* ------------------------------------------------------------ state
VARIABLES
    store,      \* the database file: tables, indexes, rows of _meta_version
    dbdef,      \* index in Defs of the definition the controller holds
    updater,    \* whether an Updater for dbdef has been constructed
    calls,      \* calls made so far
    adopted,    \* whether the database was found with content and no tracking table
    last        \* the last call: operation, inputs, result, log, stores

\* a controller of several databases
VARIABLES
    defs,       \* DatabaseController.defs: the registrations, in the order made
    stores,     \* the database file of every name the connector can bind
    mcalls,     \* calls made so far on this controller
    mlast       \* the last call on this controller

svars == <<store, dbdef, updater, calls, adopted, last>>

mvars == <<defs, stores, mcalls, mlast>>

vars == <<svars, mvars>>

\* names of database files
Names == {"1", "b"}

NoMultiCall(op) ==
    [op |-> op, name |-> "", defdict |-> <<>>, auto |-> FALSE, consent |-> FALSE,
     res |-> "None", err |-> "", ret |-> <<>>,
     predefs |-> <<>>, pre |-> [n \in Names |-> EmptyStore],
     upd |-> [n \in Names |-> EmptyStore],
     log |-> [n \in Names |-> <<>>], errs |-> [n \in Names |-> ""], asked |-> <<>>]

\* no controller of several databases is in use
MultiIdle ==
    /\ defs = <<>>
    /\ stores = [n \in Names |-> EmptyStore]
    /\ mcalls = 0
    /\ mlast = NoMultiCall("init")

Call(op, pre, o, auto, consent) ==
    [op |-> op, res |-> o.res, err |-> o.c.err, log |-> o.c.log,
     pre |-> pre, upd |-> o.upd, snap |-> o.c.snap, auto |-> auto, consent |-> consent,
     after_true |-> last.op = "ensure" /\ last.res = "True"]

NoCall(op) ==
    [op |-> op, res |-> "None", err |-> "", log |-> <<>>,
     pre |-> EmptyStore, upd |-> EmptyStore, snap |-> EmptyStore,
     auto |-> FALSE, consent |-> FALSE,
     after_true |-> FALSE]

Desc == Defs[dbdef]

Init ==
    /\ store \in InitStores
    /\ dbdef \in WellFormed
    /\ updater = FALSE
    /\ calls = 0
    /\ adopted = FALSE
    /\ last = NoCall("init")
    /\ MultiIdle

MayCall == calls < MaxCalls

\* content without a tracking table: what _init_meta adopts as version 0
Unversioned(s) == DOMAIN s.tables # {} /\ MetaName \notin DOMAIN s.tables

\* a new controller (a new process) with another definition: require()
Require(d) ==
    /\ d # dbdef
    /\ dbdef' = d
    /\ updater' = FALSE
    /\ last' = NoCall("require")
    /\ UNCHANGED <<store, calls, adopted>>
    /\ UNCHANGED mvars

\* Updater(name, dbdef, connector)
Construct(env) ==
    /\ MayCall
    /\ LET c == UpdaterInit(Begin(store), Desc, env)
           o == Outcome(c, StoreOf(c), IF c.err = "" THEN "None" ELSE "error")
       IN /\ store' = StoreOf(c)
          /\ updater' = (c.err = "")
          /\ last' = Call("construct", store, o, FALSE, FALSE)
    /\ adopted' = (adopted \/ Unversioned(store))
    /\ calls' = calls + 1
    /\ UNCHANGED dbdef
    /\ UNCHANGED mvars

\* Updater.run() on a constructed Updater
Run(env) ==
    /\ MayCall
    /\ updater
    /\ LET c == UpdaterRun(Begin(store), Desc, env)
           o == Outcome(c, store, IF c.err = "" THEN "None" ELSE "error")
       IN /\ store' = StoreOf(c)
          /\ last' = Call("run", store, o, FALSE, FALSE)
    /\ calls' = calls + 1
    /\ UNCHANGED <<dbdef, updater, adopted>>
    /\ UNCHANGED mvars

\* Updater.reset() on a constructed Updater
Reset(env) ==
    /\ MayCall
    /\ updater
    /\ LET c == UpdaterReset(Begin(store), Desc, env)
           o == Outcome(c, store, IF c.err = "" THEN "None" ELSE "error")
       IN /\ store' = StoreOf(c)
          /\ last' = Call("reset", store, o, FALSE, FALSE)
          /\ adopted' = (adopted /\ c.err # "")
    /\ calls' = calls + 1
    /\ UNCHANGED <<dbdef, updater>>
    /\ UNCHANGED mvars

\* Updater.agreed on a constructed Updater
AgreedCall(consent) ==
    /\ MayCall
    /\ updater
    /\ LET c == AskConsent(Begin(store), Desc)
           o == Outcome(c, store, IF Agreed(c, Desc, consent) THEN "True" ELSE "False")
       IN last' = Call("agreed", store, o, FALSE, consent)
    /\ calls' = calls + 1
    /\ UNCHANGED <<store, dbdef, updater, adopted>>
    /\ UNCHANGED mvars

\* DatabaseController.ensure_requirements(autoconsent=...)
Ensure(autoconsent, consent, env) ==
    /\ MayCall
    /\ LET o == EnsureRequirements(store, Desc, autoconsent, consent, env)
       IN /\ store' = StoreOf(o.c)
          /\ last' = Call("ensure", store, o, autoconsent, consent)
    /\ adopted' = (adopted \/ Unversioned(store))
    /\ calls' = calls + 1
    /\ UNCHANGED <<dbdef, updater>>
    /\ UNCHANGED mvars

\* DatabaseController.resetdb(dbname)
ResetDbCall(env) ==
    /\ MayCall
    /\ LET o == ResetDb(store, Desc, env)
       IN /\ store' = StoreOf(o.c)
          /\ last' = Call("resetdb", store, o, FALSE, FALSE)
          /\ adopted' = ((adopted \/ Unversioned(store)) /\ o.c.err # "")
    /\ calls' = calls + 1
    /\ UNCHANGED <<dbdef, updater>>
    /\ UNCHANGED mvars

Next ==
    \/ \E d \in WellFormed : Require(d)
    \/ \E env \in Envs : Construct(env)
    \/ \E env \in Envs : Run(env)
    \/ \E env \in Envs : Reset(env)
    \/ \E k \in BOOLEAN : AgreedCall(k)
    \/ \E a \in BOOLEAN, k \in BOOLEAN, env \in Envs : Ensure(a, k, env)
    \/ \E env \in Envs : ResetDbCall(env)

Spec == Init /\ [][Next]_vars

\* the same controller and Updater, given definitions that break the rules
InitIllFormed ==
    /\ store \in InitStores
    /\ dbdef \in IllFormed
    /\ updater = FALSE
    /\ calls = 0
    /\ adopted = FALSE
    /\ last = NoCall("init")
    /\ MultiIdle

NextIllFormed ==
    \/ \E d \in IllFormed : Require(d)
    \/ \E env \in Envs : Construct(env)
    \/ \E env \in Envs : Run(env)
    \/ \E env \in Envs : Reset(env)
    \/ \E k \in BOOLEAN : AgreedCall(k)
    \/ \E a \in BOOLEAN, k \in BOOLEAN, env \in Envs : Ensure(a, k, env)
    \/ \E env \in Envs : ResetDbCall(env)

SpecIllFormed == InitIllFormed /\ [][NextIllFormed]_vars

\* the same controller and Updater, given definitions with unique
\* properties or a database with a UNIQUE column
InitUnique ==
    /\ \/ store = EmptyStore /\ dbdef \in WithUnique
       \/ store = LegacyUnique /\ dbdef \in WithUnique \cup {1}
    /\ updater = FALSE
    /\ calls = 0
    /\ adopted = FALSE
    /\ last = NoCall("init")
    /\ MultiIdle

NextUnique ==
    \/ \E d \in WithUnique \cup {1} : Require(d)
    \/ \E env \in Envs : Construct(env)
    \/ \E env \in Envs : Run(env)
    \/ \E env \in Envs : Reset(env)
    \/ \E k \in BOOLEAN : AgreedCall(k)
    \/ \E a \in BOOLEAN, k \in BOOLEAN, env \in Envs : Ensure(a, k, env)
    \/ \E env \in Envs : ResetDbCall(env)

SpecUnique == InitUnique /\ [][NextUnique]_vars

\* ------------------------------------------------------------ verification of a database as it is found
\* Updater.verify
UpdaterVerify(c, desc) == VerifyVersion(c, desc, Target(desc))

\* databases stamped 0 whose schema was changed after the stamp: the table
\* test with fewer, more or other columns than a version 0 declares, with
\* or without the table addtype, with or without indexes
VerifyStores ==
    LET a == Row("a", "INTEGER", "0", "none", "0")
        b == Row("b", "INTEGER", "0", "none", "0")
        layouts == { <<a, b>>, <<a>>,
                     <<a, b, Row("_mod", "INTEGER", "1", "s:now", "0")>>,
                     <<a, b, Row("z", "INTEGER", "0", "none", "0")>>,
                     <<a, Row("b", "TEXT", "0", "none", "0")>> }
        indexes == { [name |-> "addindex", table |-> "addtype", columns |-> <<"a">>,
                      unique |-> TRUE],
                     [name |-> "extra", table |-> "test", columns |-> <<"a">>,
                      unique |-> FALSE] }
        tables == { (MetaName :> MapColumnSql(MetaColumns)) @@ ("test" :> layout) @@ more :
                      layout \in layouts, more \in {<<>>, "addtype" :> <<a>>} }
    IN { s \in [tables : tables, indexes : SUBSET indexes, meta : {<<0>>}] :
           \A i \in s.indexes : i.table \in DOMAIN s.tables }

InitVerify ==
    /\ store \in VerifyStores
    /\ dbdef \in {1, 7, 8}
    /\ updater = TRUE
    /\ calls = 0
    /\ adopted = FALSE
    /\ last = NoCall("init")
    /\ MultiIdle

\* Updater.verify() on a constructed Updater
VerifyCall ==
    /\ MayCall
    /\ updater
    /\ last' = Call("verify", store,
                    Outcome(UpdaterVerify(Begin(store), Desc), store, "None"), FALSE, FALSE)
    /\ calls' = calls + 1
    /\ UNCHANGED <<store, dbdef, updater, adopted>>
    /\ UNCHANGED mvars

\* the reconciliation step of Updater.__init__ on the database as it is
\* found: _autoupdate_within_version(self._version)
ReconcileCall(env) ==
    /\ MayCall
    /\ updater
    /\ LET c == AutoupdateWithinVersion(Begin(store), Desc, Version(Begin(store)), env)
       IN /\ store' = StoreOf(c)
          /\ last' = Call("reconcile", store, Outcome(c, StoreOf(c), "None"), FALSE, FALSE)
    /\ calls' = calls + 1
    /\ UNCHANGED <<dbdef, updater, adopted>>
    /\ UNCHANGED mvars

NextVerify ==
    \/ VerifyCall
    \/ \E env \in Envs : ReconcileCall(env)

SpecVerify == InitVerify /\ [][NextVerify]_vars

\* ------------------------------------------------------------ defs.py: MultiDatabaseDef
\* keys of a mapping passed to require(): the strings "1" and "b" and the
\* integer 1 (written "i:1"); _GenericDefinition keeps an item under str(key)
Keys == {"1", "i:1", "b"}

Str(key) == IF key = "i:1" THEN "1" ELSE key

Entry(name, d) == [name |-> name, def |-> d]

\* iter(self.__dict__): the names held, as strings
Registered(ds) == {ds[i].name : i \in 1..Len(ds)}

DefOf(ds, name) == ds[CHOOSE i \in 1..Len(ds) : ds[i].name = name].def

\* __setitem__: setattr(self, str(name), value); an attribute that exists
\* keeps its place and takes the new value
SetItem(ds, key, d) ==
    IF Str(key) \in Registered(ds)
    THEN [i \in 1..Len(ds) |-> IF ds[i].name = Str(key) THEN Entry(Str(key), d) ELSE ds[i]]
    ELSE Append(ds, Entry(Str(key), d))

\* __getitem__: getattr(self, str(name)); "" when the attribute exists
GetItemError(ds, name) == IF Str(name) \in Registered(ds) THEN "" ELSE "AttributeError"

\* ------------------------------------------------------------ update.py: MultiUpdater
\* m.cs: the connection state of every database; m.err: the exception that
\* ended the call
MultiBegin(sts) == [cs |-> [n \in Names |-> Begin(sts[n])], err |-> ""]

\* construction that passes over a database whose Updater cannot be
\* constructed and goes on with the others
ConstructAllSkipping(m, ds, env) ==
    LET R[i \in 0..Len(ds)] ==
            IF i = 0 THEN m
            ELSE [R[i - 1] EXCEPT !.cs[ds[i].name] =
                     UpdaterInit(R[i - 1].cs[ds[i].name], Defs[ds[i].def], env)]
    IN R[Len(ds)]

RECURSIVE ConstructAll(_, _, _)
ConstructAll(m, ds, env) ==
    IF ds = <<>> \/ m.err # "" THEN m
    ELSE LET c == UpdaterInit(m.cs[Head(ds).name], Defs[Head(ds).def], env)
         IN ConstructAll([m EXCEPT !.cs[Head(ds).name] = c, !.err = c.err], Tail(ds), env)

\* MultiUpdater.__init__: assert defs and connector
MultiUpdaterInit(sts, ds, env) ==
    IF ds = <<>> THEN [MultiBegin(sts) EXCEPT !.err = "AssertionError"]
    ELSE ConstructAll(MultiBegin(sts), ds, env)

MultiNeeded(m, ds) ==
    \E i \in 1..Len(ds) : Needed(m.cs[ds[i].name], Defs[ds[i].def])

RECURSIVE MultiPrompts(_, _)
MultiPrompts(m, ds) ==
    IF ds = <<>> THEN <<>>
    ELSE Prompts(m.cs[Head(ds).name], Defs[Head(ds).def]) \o MultiPrompts(m, Tail(ds))

MultiAgreed(m, ds, consent) == MultiPrompts(m, ds) = <<>> \/ consent

\* the consent requests MultiUpdater.agreed makes, each with the text of its
\* items
MultiAskConsent(m, ds) ==
    IF MultiPrompts(m, ds) = <<>> THEN <<>> ELSE <<JoinItems(MultiPrompts(m, ds))>>

\* MultiUpdater.run that updates the first database only
MultiRunFirst(m, ds, env) ==
    IF ds = <<>> \/ m.err # "" THEN m
    ELSE LET n == Head(ds).name
             c == IF Needed(m.cs[n], Defs[Head(ds).def])
                  THEN UpdaterRun(m.cs[n], Defs[Head(ds).def], env) ELSE m.cs[n]
         IN [m EXCEPT !.cs[n] = c, !.err = c.err]

\* MultiUpdater.run as one transaction over all databases: a failure puts
\* every database back to where the run found it
MultiRunAtomic(m, ds, env) ==
    LET R[i \in 0..Len(ds)] ==
            IF i = 0 THEN m
            ELSE IF R[i - 1].err # "" THEN R[i - 1]
            ELSE LET n == ds[i].name
                     c == IF Needed(R[i - 1].cs[n], Defs[ds[i].def])
                          THEN UpdaterRun(R[i - 1].cs[n], Defs[ds[i].def], env)
                          ELSE R[i - 1].cs[n]
                 IN [R[i - 1] EXCEPT !.cs[n] = c, !.err = c.err]
        r == R[Len(ds)]
    IN IF r.err = "" THEN r
       ELSE [r EXCEPT !.cs = [n \in Names |->
                [r.cs[n] EXCEPT !.tables = m.cs[n].tables,
                                !.indexes = m.cs[n].indexes,
                                !.meta = m.cs[n].meta]]]

RECURSIVE MultiRun(_, _, _)
MultiRun(m, ds, env) ==
    IF ds = <<>> \/ m.err # "" THEN m
    ELSE LET n == Head(ds).name
             c == IF Needed(m.cs[n], Defs[Head(ds).def])
                  THEN UpdaterRun(m.cs[n], Defs[Head(ds).def], env) ELSE m.cs[n]
         IN MultiRun([m EXCEPT !.cs[n] = c, !.err = c.err], Tail(ds), env)

\* ------------------------------------------------------------ __init__.py: a controller of several databases
\* the result of a call: the stores, the stores as the Updaters'
\* construction left them, the value returned ("error" for an exception),
\* the log and exception of every database, and the consent requests made
MultiOutcome(sts, upd, res, err, log, errs, asked) ==
    [stores |-> sts, upd |-> upd, res |-> res, err |-> err, log |-> log, errs |-> errs,
     asked |-> asked]

Untouched(sts, err) ==
    MultiOutcome(sts, sts, "error", err, [n \in Names |-> <<>>], [n \in Names |-> ""], <<>>)

OfMulti(m, upd, res, asked) ==
    MultiOutcome([n \in Names |-> StoreOf(m.cs[n])], upd, res, m.err,
                 [n \in Names |-> m.cs[n].log], [n \in Names |-> m.cs[n].err], asked)

RECURSIVE ConsentRequests(_)
ConsentRequests(log) ==
    IF log = <<>> THEN <<>>
    ELSE (IF Head(log).kind = "consent" THEN <<Head(log).name>> ELSE <<>>)
         \o ConsentRequests(Tail(log))

OfSingle(sts, name, o) ==
    MultiOutcome([sts EXCEPT ![name] = StoreOf(o.c)], [sts EXCEPT ![name] = o.upd],
                 o.res, o.c.err,
                 [n \in Names |-> IF n = name THEN o.c.log ELSE <<>>],
                 [n \in Names |-> IF n = name THEN o.c.err ELSE ""],
                 ConsentRequests(o.c.log))

\* __setattr__: value = factory(value), down to PropertyDefinition's
\* assert isinstance(prop, (Property, Id)); "" when the definition is built
FactoryError(d) ==
    IF \E v \in DOMAIN Defs[d].versions :
           \E i \in 1..Len(Defs[d].versions[v].types) :
               \E j \in 1..Len(Defs[d].versions[v].types[i].props) :
                   Defs[d].versions[v].types[i].props[j].kind \notin {"prop", "id"}
    THEN "AssertionError" ELSE ""

\* require(defdict); defdict: a sequence of [key, def], in dict order; the
\* loop ends at the first item whose definition cannot be built
ControllerRequire(ds, defdict) ==
    LET dupekeys == Registered(ds) \cap {defdict[i].key : i \in 1..Len(defdict)}
        SetItems[i \in 0..Len(defdict)] ==
            IF i = 0 THEN [defs |-> ds, err |-> ""]
            ELSE IF SetItems[i - 1].err # "" THEN SetItems[i - 1]
            ELSE IF FactoryError(defdict[i].def) # ""
                 THEN [defs |-> SetItems[i - 1].defs, err |-> FactoryError(defdict[i].def)]
                 ELSE [defs |-> SetItem(SetItems[i - 1].defs, defdict[i].key, defdict[i].def),
                       err |-> ""]
    IN IF dupekeys # {} THEN [defs |-> ds, err |-> "ValueError"]
       ELSE SetItems[Len(defdict)]

\* _create_updater and dbdef: try self.defs[dbname] except KeyError: raise
\* ValueError; any other exception passes
LookupError(ds, dbname) ==
    LET raised == GetItemError(ds, dbname)
    IN IF raised = "KeyError" THEN "ValueError" ELSE raised

\* ensure_requirements(dbname, autoconsent); dbname "" is None or empty
ControllerEnsure(sts, ds, dbname, autoconsent, consent, env) ==
    IF dbname # ""
    THEN IF LookupError(ds, dbname) # "" THEN Untouched(sts, LookupError(ds, dbname))
         ELSE OfSingle(sts, dbname,
                       EnsureRequirements(sts[dbname], Defs[DefOf(ds, dbname)],
                                          autoconsent, consent, env))
    ELSE LET m == MultiUpdaterInit(sts, ds, env)
             upd == [n \in Names |-> StoreOf(m.cs[n])]
             asked == IF autoconsent THEN <<>> ELSE MultiAskConsent(m, ds)
         IN IF m.err # "" THEN OfMulti(m, upd, "error", <<>>)
            ELSE IF ~ MultiNeeded(m, ds) THEN OfMulti(m, upd, "True", <<>>)
            ELSE IF ~ (autoconsent \/ MultiAgreed(m, ds, consent))
                 THEN OfMulti(m, upd, "False", asked)
                 ELSE LET r == MultiRun(m, ds, env)
                      IN OfMulti(r, upd, IF r.err = "" THEN "True" ELSE "error", asked)

\* resetdb that resets every registered database when no name is given
ControllerResetdbAll(sts, ds, dbname, env) ==
    IF dbname = ""
    THEN LET R[i \in 0..Len(ds)] ==
                 IF i = 0 THEN sts
                 ELSE [R[i - 1] EXCEPT ![ds[i].name] =
                          StoreOf(ResetDb(R[i - 1][ds[i].name], Defs[ds[i].def], env).c)]
         IN MultiOutcome(R[Len(ds)], sts, "None", "",
                         [n \in Names |-> <<>>], [n \in Names |-> ""], <<>>)
    ELSE IF LookupError(ds, dbname) # "" THEN Untouched(sts, LookupError(ds, dbname))
    ELSE OfSingle(sts, dbname, ResetDb(sts[dbname], Defs[DefOf(ds, dbname)], env))

\* resetdb(dbname)
ControllerResetdb(sts, ds, dbname, env) ==
    IF dbname = "" THEN Untouched(sts, "ValueError")
    ELSE IF LookupError(ds, dbname) # "" THEN Untouched(sts, LookupError(ds, dbname))
    ELSE OfSingle(sts, dbname, ResetDb(sts[dbname], Defs[DefOf(ds, dbname)], env))

\* dbdef(dbname): the definition of the highest declared version
ControllerDbdef(ds, dbname) ==
    IF LookupError(ds, dbname) # "" THEN [ret |-> <<>>, err |-> LookupError(ds, dbname)]
    ELSE LET dbdefinition == Defs[DefOf(ds, dbname)]
             maxversion == Max(DOMAIN dbdefinition.versions)
         IN [ret |-> <<dbdefinition.versions[maxversion]>>, err |-> ""]

\* ------------------------------------------------------------ state of a controller of several databases
\* the definitions it is given: testdef, a definition with a prompted
\* transition for version 0 and a definition that fails to verify
MultiDefs == {2, 5, 6}

\* the mappings passed to require(): at most one item for every database file
DefDicts ==
    {dd \in UNION {[1..n -> [key : Keys, def : MultiDefs]] : n \in 1..Cardinality(Names)} :
        \A i, j \in 1..Len(dd) : i # j => dd[i].key # dd[j].key}

\* the tables of these definitions take every added column, with or
\* without rows
MultiEnvs == {env \in Envs : ~ env.strict}

MultiCall(op, name, defdict, auto, consent, o, ret) ==
    [op |-> op, name |-> name, defdict |-> defdict, auto |-> auto, consent |-> consent,
     res |-> o.res, err |-> o.err, ret |-> ret,
     predefs |-> defs, pre |-> stores, upd |-> o.upd, log |-> o.log, errs |-> o.errs,
     asked |-> o.asked]

\* what a call leaves behind: the database files and the record of the call
Recorded(op, name, defdict, auto, consent, o, ret) ==
    /\ stores' = o.stores
    /\ mlast' = MultiCall(op, name, defdict, auto, consent, o, ret)

InitMulti ==
    /\ store = EmptyStore
    /\ dbdef = 1
    /\ updater = FALSE
    /\ calls = 0
    /\ adopted = FALSE
    /\ last = NoCall("init")
    /\ defs = <<>>
    /\ stores \in [Names -> InitStores]
    /\ mcalls = 0
    /\ mlast = NoMultiCall("init")

MayCallMulti == mcalls < MaxMultiCalls

\* DatabaseController.require(defdict)
RequireCall(defdict) ==
    /\ MayCallMulti
    /\ LET r == ControllerRequire(defs, defdict)
       IN /\ defs' = r.defs
          /\ mlast' = MultiCall("require", "", defdict, FALSE, FALSE,
                                Untouched(stores, r.err), <<>>)
    /\ mcalls' = mcalls + 1
    /\ UNCHANGED stores
    /\ UNCHANGED svars

\* DatabaseController.ensure_requirements(dbname, autoconsent)
EnsureCall(dbname, autoconsent, consent, env) ==
    /\ MayCallMulti
    /\ Recorded("ensure", dbname, <<>>, autoconsent, consent,
                ControllerEnsure(stores, defs, dbname, autoconsent, consent, env), <<>>)
    /\ mcalls' = mcalls + 1
    /\ UNCHANGED defs
    /\ UNCHANGED svars

\* DatabaseController.resetdb(dbname)
ResetdbCall(dbname, env) ==
    /\ MayCallMulti
    /\ Recorded("resetdb", dbname, <<>>, FALSE, FALSE,
                ControllerResetdb(stores, defs, dbname, env), <<>>)
    /\ mcalls' = mcalls + 1
    /\ UNCHANGED defs
    /\ UNCHANGED svars

\* DatabaseController.dbdef(dbname)
DbdefCall(dbname) ==
    /\ MayCallMulti
    /\ LET r == ControllerDbdef(defs, dbname)
       IN mlast' = MultiCall("dbdef", dbname, <<>>, FALSE, FALSE,
                             Untouched(stores, r.err), r.ret)
    /\ mcalls' = mcalls + 1
    /\ UNCHANGED <<defs, stores>>
    /\ UNCHANGED svars

NextMulti ==
    \/ \E defdict \in DefDicts : RequireCall(defdict)
    \/ \E n \in Names \cup {""}, a \in BOOLEAN, k \in BOOLEAN, env \in MultiEnvs :
           EnsureCall(n, a, k, env)
    \/ \E n \in Names \cup {""}, env \in MultiEnvs : ResetdbCall(n, env)
    \/ \E n \in Names \cup {""} : DbdefCall(n)

SpecMulti == InitMulti /\ [][NextMulti]_vars

\* the same controller, given mappings that may hold a definition the
\* factories refuse
MalformedDicts ==
    {dd \in UNION {[1..n -> [key : Keys, def : {2} \cup Malformed]] :
                     n \in 1..Cardinality(Names)} :
        \A i, j \in 1..Len(dd) : i # j => dd[i].key # dd[j].key}

NextMalformed ==
    \/ \E defdict \in MalformedDicts : RequireCall(defdict)
    \/ \E n \in Names \cup {""}, a \in BOOLEAN, k \in BOOLEAN, env \in MultiEnvs :
           EnsureCall(n, a, k, env)
    \/ \E n \in Names \cup {""}, env \in MultiEnvs : ResetdbCall(n, env)
    \/ \E n \in Names \cup {""} : DbdefCall(n)

SpecMalformed == InitMulti /\ [][NextMalformed]_vars

\* a database stamped 0 whose table test got a column after the stamp that
\* no version declares
ChangedStore ==
    [tables |-> (MetaName :> MapColumnSql(MetaColumns))
                @@ ("test" :> << Row("a", "INTEGER", "0", "none", "0"),
                                 Row("b", "INTEGER", "0", "none", "0"),
                                 Row("z", "INTEGER", "0", "none", "0") >>),
     indexes |-> {},
     meta |-> <<0>>]

\* the same controller, started on database files of which one is in that
\* state
InitMultiFound ==
    /\ store = EmptyStore
    /\ dbdef = 1
    /\ updater = FALSE
    /\ calls = 0
    /\ adopted = FALSE
    /\ last = NoCall("init")
    /\ defs = <<>>
    /\ stores \in {sts \in [Names -> InitStores \cup {ChangedStore}] :
                      Cardinality({n \in Names : sts[n] = ChangedStore}) = 1}
    /\ mcalls = 0
    /\ mlast = NoMultiCall("init")

SpecMultiFound == InitMultiFound /\ [][NextMulti]_vars

\* ------------------------------------------------------------ properties
Schema(s) == [tables |-> s.tables, indexes |-> s.indexes]

EventsOf(log, kinds) == {i \in 1..Len(log) : log[i].kind \in kinds}

\* the call ended with an exception raised by a statement of a script
ScriptFailed(call) ==
    /\ call.err # ""
    /\ call.log # <<>>
    /\ call.log[Len(call.log)].kind = "stmt"

\* the call ended with an exception raised inside Updater.run()
RunFailed(call) == call.err # "" /\ EventsOf(call.log, {"run"}) # {}

\* the version of the last step the call completed and verified, or else
\* the version the Updater found after its construction
LastGood(call) ==
    LET done == EventsOf(call.log, {"verified"})
    IN IF done = {} THEN Version(call.upd) ELSE call.log[Max(done)].ver

\* the names of the tables declared in any version of the definition
RECURSIVE TableNamesOf(_)
TableNamesOf(tabs) ==
    IF tabs = <<>> THEN {} ELSE {Head(tabs).tablename} \cup TableNamesOf(Tail(tabs))

DeclaredTables(desc) == TableNamesOf(AllTables(desc, SortedSeq(DOMAIN desc.versions)))

\* C1: when the transition script of a version fails partway during run(),
\* the stamped version is the one from before that step and the store shows
\* no table, column or index change made by that step.
C1_ScriptFailureLeavesNoTrace ==
    (last.op \in {"run", "ensure"} /\ ScriptFailed(last))
        => /\ Version(store) = Version(last.snap)
           /\ Schema(store) = Schema(last.snap)

\* C2: when run() or ensure_requirements ends with an error, the stamped
\* version is the last good one: a version whose step did not complete,
\* verification included, is never left stamped.
C2_ErrorLeavesLastGoodVersion ==
    (last.op \in {"run", "ensure"} /\ RunFailed(last))
        => Version(store) = LastGood(last)

\* C3: a database with user tables and no tracking table is stamped 0 by
\* the first construction of an Updater, and the transition declared for
\* version 0 is never executed on it, at construction or in a later run().
C3_AdoptionRunsNoVersionZeroTransition ==
    /\ (last.op \in {"construct", "ensure", "resetdb"} /\ Unversioned(last.pre))
           => Version(last.upd) = 0
    /\ adopted => \A i \in EventsOf(last.log, {"script"}) : last.log[i].ver # 0

\* C4: for a database stamped v >= 0, run() executes a migration step
\* (script, reconciliation, stamp) only for declared versions n with
\* v < n <= target.
C4_RunStepsOnlyAboveStamped ==
    (last.op = "run" /\ Version(last.pre) # None)
        => \A i \in EventsOf(last.log, {"step", "script", "stamp"}) :
               /\ Version(last.pre) < last.log[i].ver
               /\ last.log[i].ver <= Target(Desc)

\* C5: with a prompted transition on the path from the stamped version to
\* the target, consent declined and autoconsent false, ensure_requirements
\* returns False, runs no transition script, writes no version stamp, and
\* needed is still true.
C5_DeclinedConsentWritesNothing ==
    (/\ last.op = "ensure"
     /\ Version(last.pre) # None
     /\ Prompts(Begin(last.pre), Desc) # <<>>
     /\ Needed(Begin(last.pre), Desc)
     /\ ~ last.auto /\ ~ last.consent
     /\ last.res # "error")
        => /\ last.res = "False"
           /\ EventsOf(last.log, {"script", "stamp"}) = {}
           /\ Needed(Begin(store), Desc)

\* C7: reset(), whatever the stamped version was, removes every table
\* declared in any version of the definition and leaves the stamped version
\* unset.
C7_ResetRemovesTablesOfAllVersions ==
    (last.op \in {"reset", "resetdb"} /\ last.err = "")
        => /\ DeclaredTables(Desc) \cap DOMAIN store.tables = {}
           /\ Version(store) = None

DdlKinds == {"create_table", "add_column", "create_index", "drop_index", "drop_table", "stmt"}

\* the position of the consent request in the log of the call, 0 if none
ConsentAt(call) ==
    LET asked == EventsOf(call.log, {"consent"})
    IN IF asked = {} THEN 0 ELSE Max(asked)

\* C6 as stated: in ensure_requirements, for a database that needs an
\* update requiring consent, no DDL is executed before the consent decision
\* is obtained, and when consent is declined the schema is the same as
\* before the call.
C6_NoDdlBeforeConsent ==
    (last.op = "ensure" /\ ConsentAt(last) > 0)
        => /\ \A i \in 1..ConsentAt(last) : last.log[i].kind \notin DdlKinds
           /\ ~ last.consent => Schema(store) = Schema(last.pre)

\* C6 amended: before the consent decision is obtained ensure_requirements
\* runs no migration step and no statement of a transition script; the DDL
\* that precedes it is that of the Updater's construction only. When
\* consent is declined the call returns False and the schema is as the
\* construction left it.
C6_OnlyConstructionBeforeConsent ==
    (last.op = "ensure" /\ ConsentAt(last) > 0)
        => /\ \A i \in 1..ConsentAt(last) :
                  last.log[i].kind \notin {"run", "step", "script", "stmt"}
           /\ ~ last.consent
                  => /\ last.res = "False"
                     /\ ConsentAt(last) = Len(last.log)
                     /\ Schema(store) = Schema(last.upd)

\* consent was asked and declined after the construction had changed the
\* schema
C6_Witness ==
    /\ last.op = "ensure" /\ ConsentAt(last) > 0 /\ ~ last.consent
    /\ Schema(last.upd) # Schema(last.pre)
    /\ Schema(store) = Schema(last.upd)

IndexNormals(idxs) == {IndexNormal(idxs[i]) : i \in 1..Len(idxs)}

\* the call ran Updater.run() on a database without a stamped version and
\* without content
FreshRun(call) ==
    /\ call.op \in {"run", "ensure"}
    /\ EventsOf(call.log, {"run"}) # {}
    /\ Version(call.pre) = None
    /\ Content(Begin(call.pre)) = {}

\* C8: on a fresh database run() creates the tables and indexes of the
\* target version directly, executes no transition script of any version
\* and writes exactly one version stamp, the target.
C8_FreshJumpstart ==
    FreshRun(last)
        => /\ last.err = ""
           /\ EventsOf(last.log, {"step", "script", "stmt"}) = {}
           /\ \E i \in 1..Len(last.log) :
                  /\ EventsOf(last.log, {"stamp"}) = {i}
                  /\ last.log[i].ver = Target(Desc)
           /\ store.meta = Append(last.pre.meta, Target(Desc))
           /\ DOMAIN store.tables
                  = TableNamesOf(Tables(Desc, Target(Desc))) \cup {MetaName}
           /\ VersionVerifies(Begin(store), Desc, Target(Desc))
           /\ store.indexes = IndexNormals(Indexes(Desc, Target(Desc)))

HasScript(desc) ==
    \E v \in DOMAIN desc.versions :
        desc.versions[v].transition.set /\ desc.versions[v].transition.sql # <<>>

\* a fresh database was jumpstarted past a version that declares a script
C8_Witness ==
    /\ FreshRun(last) /\ last.op = "run"
    /\ HasScript(Desc) /\ Target(Desc) > 0
    /\ Version(store) = Target(Desc)

\* the normalised columns of each table, and the indexes
NormalColumns(s, t) ==
    {ColumnNormal(ColumnFromRowinfo(s.tables[t][i])) : i \in 1..Len(s.tables[t])}

NormalSchema(s) ==
    [tables |-> [t \in DOMAIN s.tables |-> NormalColumns(s, t)], indexes |-> s.indexes]

\* a fresh database brought to the target of desc by construction and run()
JumpStore(desc) ==
    LET env == [strict |-> FALSE, dml |-> TRUE]
    IN StoreOf(UpdaterRun(UpdaterInit(Begin(EmptyStore), desc, env), desc, env))

\* the call migrated a database stamped 0 through the declared versions up
\* to the target, without error
IncrementalFromZero(call) ==
    /\ call.op \in {"run", "ensure"}
    /\ call.err = ""
    /\ \E i \in EventsOf(call.log, {"run"}) : call.log[i].ver = 0
    /\ Version(store) = Target(Desc)

\* C9 as stated: a database brought to the target incrementally from
\* version 0 and a jumpstarted fresh database end with the same tables, the
\* same columns per table and the same indexes.
C9_IncrementalEqualsJumpstart ==
    IncrementalFromZero(last) => NormalSchema(store) = NormalSchema(JumpStore(Desc))

\* C9 amended: every table of the jumpstarted database exists in the
\* incrementally migrated one with the same normalised columns, and both
\* have the same indexes; the incrementally migrated database may hold
\* further tables that the target version does not declare.
C9_DeclaredSchemaEqualsJumpstart ==
    IncrementalFromZero(last)
        => LET jump == JumpStore(Desc) IN
           /\ DOMAIN jump.tables \subseteq DOMAIN store.tables
           /\ \A t \in DOMAIN jump.tables : NormalColumns(store, t) = NormalColumns(jump, t)
           /\ store.indexes = jump.indexes

\* an incremental migration that ran a transition script ended at the target
C9_Witness ==
    /\ IncrementalFromZero(last)
    /\ EventsOf(last.log, {"script"}) # {}
    /\ Target(Desc) > 0
    /\ store.indexes # {}

\* C10: ensure_requirements called twice in a row with the same definition
\* and consent granted returns True both times, and the second call changes
\* no table, column or index.
C10_EnsureTwiceIdempotent ==
    (last.op = "ensure" /\ last.after_true /\ (last.auto \/ last.consent))
        => /\ last.res = "True"
           /\ Schema(store) = Schema(last.pre)

\* the second of two calls returned True on a migrated database with tables
\* and an index
C10_Witness ==
    /\ last.op = "ensure" /\ last.after_true /\ (last.auto \/ last.consent)
    /\ last.res = "True"
    /\ Version(store) = Target(Desc)
    /\ store.indexes # {}

\* the declaration of version v differs from the tables of store s by
\* additions only: every live column of a declared table is declared as it
\* is, and every declared column the table lacks is a non-Id property that
\* is nullable or has a default
AddedColumns(s, tab) ==
    {i \in 1..Len(tab.columns) :
        tab.tablename \in DOMAIN s.tables
        /\ tab.columns[i].name \notin ColumnNames(s.tables[tab.tablename])}

AdditiveRedeclaration(s, desc, v) ==
    /\ v # None
    /\ Declared(desc, v)
    /\ \A k \in 1..Len(Tables(desc, v)) :
          LET tab == Tables(desc, v)[k] IN
          /\ tab.tablename \in DOMAIN s.tables
                => TableVerifies(Begin(s), tab.tablename, tab.columns)
          /\ \A i \in AddedColumns(s, tab) :
                /\ ~ Truthy(tab.columns[i].pkey)
                /\ ~ Truthy(tab.columns[i].notnull) \/ tab.columns[i].default # "none"

\* every table, column and index declared for version v is in store s
HoldsDeclared(s, desc, v) ==
    /\ \A k \in 1..Len(Tables(desc, v)) :
          LET tab == Tables(desc, v)[k] IN
          /\ tab.tablename \in DOMAIN s.tables
          /\ ColumnNames(tab.columns) \subseteq ColumnNames(s.tables[tab.tablename])
    /\ IndexNormals(Indexes(desc, v)) \subseteq s.indexes

\* C11: for a database stamped at version v, when version v is redeclared
\* with added nullable or defaulted non-Id properties, added types and added
\* indexes, ensure_requirements adds the columns, the tables and the indexes
\* to the store, leaves the stamped version number at v and runs no
\* transition script.
C11_AdditiveRedeclarationApplied ==
    (/\ last.op = "ensure"
     /\ Version(last.pre) = Target(Desc)
     /\ AdditiveRedeclaration(last.pre, Desc, Version(last.pre)))
        => /\ last.res = "True"
           /\ HoldsDeclared(store, Desc, Target(Desc))
           /\ Version(store) = Version(last.pre)
           /\ EventsOf(last.log, {"script", "stmt"}) = {}

\* the tables of store s are those declared for version v, column by column
TablesAsDeclared(s, desc, v) ==
    /\ v # None
    /\ Declared(desc, v)
    /\ \A k \in 1..Len(Tables(desc, v)) :
          LET tab == Tables(desc, v)[k] IN
          /\ TableVerifies(Begin(s), tab.tablename, tab.columns)
          /\ ColumnNames(tab.columns) \subseteq ColumnNames(s.tables[tab.tablename])

\* the declaration of the stamped version changed by losing indexes only
IndexesRemoved(call, desc) ==
    /\ call.op = "ensure"
    /\ Version(call.pre) = Target(desc)
    /\ TablesAsDeclared(call.pre, desc, Version(call.pre))
    /\ IndexNormals(Indexes(desc, Target(desc))) \subseteq call.pre.indexes

\* C12: when an index is removed from the declaration of the stamped version,
\* ensure_requirements drops that index from the store and changes no table
\* and no column.
C12_RemovedIndexDropped ==
    IndexesRemoved(last, Desc)
        => /\ last.res = "True"
           /\ store.indexes = IndexNormals(Indexes(Desc, Target(Desc)))
           /\ store.tables = last.pre.tables

\* an index of the store that the declaration no longer holds was dropped
C12_Witness ==
    /\ IndexesRemoved(last, Desc)
    /\ last.pre.indexes \ IndexNormals(Indexes(Desc, Target(Desc))) # {}
    /\ last.pre.indexes \ store.indexes # {}

\* ensure_requirements(autoconsent=True) was called on a database without
\* a stamped version and without content, and returned
FreshEnsure(call) ==
    /\ call.op = "ensure"
    /\ call.auto
    /\ call.res = "True"
    /\ Version(call.pre) = None
    /\ Content(Begin(call.pre)) = {}

\* C13: after ensure_requirements(autoconsent=True) returns on a fresh
\* database, every type and index declared in the target version verifies
\* against the store, the store holds no table other than the declared types
\* and the tracking table, and no index other than the declared indexes.
C13_FreshEnsureExactSchema ==
    FreshEnsure(last)
        => /\ VersionVerifies(Begin(store), Desc, Target(Desc))
           /\ DOMAIN store.tables =
                  {MetaName} \cup TableNamesOf(Tables(Desc, Target(Desc)))
           /\ store.indexes = IndexNormals(Indexes(Desc, Target(Desc)))

\* a fresh database was brought to a target that declares an index and not
\* every type of the earlier versions
C13_Witness ==
    /\ FreshEnsure(last)
    /\ store.indexes # {}
    /\ DeclaredTables(Desc) \ DOMAIN store.tables # {}

\* the version values of the tracking rows of store s
StampedRows(s) == {s.meta[i] : i \in 1..Len(s.meta)} \ {None}

\* no version is stamped, or a declared version number is above every
\* stamped one
UnsetOrBelowMax(s, desc) ==
    \/ StampedRows(s) = {}
    \/ \E k \in DOMAIN desc.versions : \A r \in StampedRows(s) : r < k

\* ensure_requirements(autoconsent=True) got past the Updater's construction
NeededEvaluated(call) ==
    /\ call.op = "ensure"
    /\ call.auto
    /\ call.err = "" \/ EventsOf(call.log, {"run"}) # {}

\* C14: Updater.needed is true if and only if the stamped version is unset
\* or is less than the maximum declared version number; with autoconsent,
\* ensure_requirements runs the update exactly when needed is true.
C14_NeededIffUnsetOrBelowMax ==
    NeededEvaluated(last)
        => /\ Needed(Begin(last.upd), Desc) <=> UnsetOrBelowMax(last.upd, Desc)
           /\ EventsOf(last.log, {"run"}) # {} <=> UnsetOrBelowMax(last.upd, Desc)

\* needed was false for a database stamped at the maximum declared version
C14_Witness ==
    /\ NeededEvaluated(last)
    /\ StampedRows(last.upd) # {}
    /\ EventsOf(last.log, {"run"}) = {}

\* the reasons of the prompt=true transitions of the declared versions above
\* the stamped version of store s, up to the target, in ascending order
ReasonsAbove(s, desc) ==
    PromptReasons(TransitionsOf(desc,
        SortedSeq({n \in DOMAIN desc.versions : Version(s) < n /\ n <= Target(desc)})))

\* C15: for a database whose stamped version is v, Updater.agreed presents
\* exactly the reasons of the prompt=true transitions of the declared
\* versions n with v < n <= target, in one combined consent request, and
\* returns that decision; when there is no such transition it returns true
\* without requesting consent.
C15_AgreedAsksForVersionsAboveStamped ==
    (last.op = "agreed" /\ Version(last.pre) # None)
        => IF ReasonsAbove(last.pre, Desc) = <<>>
           THEN last.log = <<>> /\ last.res = "True"
           ELSE /\ last.log = <<Event("consent", None, JoinItems(ReasonsAbove(last.pre, Desc)))>>
                /\ last.res = (IF last.consent THEN "True" ELSE "False")

\* ------------------------------------------------------------ properties of a controller of several databases
\* the databases a call covers: the named one, or every registered one
Covered(call) == IF call.name # "" THEN {call.name} ELSE Registered(defs)

DescOf(n) == Defs[DefOf(defs, n)]

\* C16: whenever ensure_requirements returns True, every database it covers
\* (the named one, or all registered ones when no name is given) is stamped
\* at its maximum declared version, so that needed is false for each of
\* them; it returns False only when an update was needed, autoconsent was
\* false and consent was declined.
C16_EnsureTrueMeansAllAtTarget ==
    mlast.op = "ensure"
        => /\ mlast.res = "True"
                => \A n \in Covered(mlast) :
                       /\ Version(stores[n]) = Target(DescOf(n))
                       /\ ~ Needed(Begin(stores[n]), DescOf(n))
           /\ mlast.res = "False"
                => /\ ~ mlast.auto
                   /\ ~ mlast.consent
                   /\ \E n \in Covered(mlast) : Needed(Begin(mlast.upd[n]), DescOf(n))

\* ensure_requirements() without a name returned True after it updated two
\* databases
C16_Witness ==
    /\ mlast.op = "ensure"
    /\ mlast.name = ""
    /\ mlast.res = "True"
    /\ Cardinality(Registered(defs)) = 2
    /\ \A n \in Registered(defs) : EventsOf(mlast.log[n], {"run"}) # {}

\* the names under which the items of a mapping are registered
NamesOf(defdict) == {Str(defdict[i].key) : i \in 1..Len(defdict)}

\* C17: require fails with a name-collision error when any name of the new
\* mapping is already registered, and in that case registers none of the
\* new names and leaves every existing registration unchanged; a registered
\* name is never redefined by any sequence of require calls.
C17_RequireNeverRedefines ==
    mlast.op = "require"
        => /\ NamesOf(mlast.defdict) \cap Registered(mlast.predefs) # {}
                => mlast.err = "ValueError" /\ defs = mlast.predefs
           /\ \A n \in Registered(mlast.predefs) :
                  n \in Registered(defs) /\ DefOf(defs, n) = DefOf(mlast.predefs, n)

\* C18: resetdb called with an empty or missing name fails with an error and
\* resets no database: no table is dropped and no tracking row is changed
\* in any registered database.
C18_ResetdbWithoutNameResetsNothing ==
    (mlast.op = "resetdb" /\ mlast.name = "")
        => /\ mlast.err = "ValueError"
           /\ stores = mlast.pre
           /\ defs = mlast.predefs

\* resetdb without a name was called while a database with content was
\* registered
C18_Witness ==
    /\ mlast.op = "resetdb"
    /\ mlast.name = ""
    /\ \E n \in Registered(defs) : DOMAIN stores[n].tables # {}

\* C19: ensure_requirements(dbname), resetdb(dbname) and dbdef(dbname)
\* called with a name that was never registered fail with a ValueError and
\* touch no store; for a registered name dbdef returns the definition of the
\* highest declared version, whatever version the store is stamped at.
C19_UnknownNameIsValueError ==
    /\ (/\ mlast.op \in {"ensure", "resetdb", "dbdef"}
        /\ mlast.name # ""
        /\ mlast.name \notin Registered(mlast.predefs))
           => mlast.err = "ValueError" /\ stores = mlast.pre
    /\ (mlast.op = "dbdef" /\ mlast.name \in Registered(mlast.predefs))
           => /\ mlast.err = ""
              /\ mlast.ret = <<DescOf(mlast.name).versions[Target(DescOf(mlast.name))]>>

\* the update of database n completed in the last call
UpdateCompleted(call, n) ==
    /\ EventsOf(call.log[n], {"run"}) # {}
    /\ call.errs[n] = ""

\* MultiUpdater.run() failed while it updated a database
MultiRunFailed(call) ==
    /\ call.op = "ensure"
    /\ call.name = ""
    /\ \E n \in Registered(call.predefs) :
           call.errs[n] # "" /\ EventsOf(call.log[n], {"run"}) # {}

\* C20: when MultiUpdater.run() fails while updating one database, every
\* database whose update completed earlier in the same run stays at its
\* target version with its migrated schema; nothing done to another
\* database is rolled back.
C20_CompletedUpdatesSurviveFailure ==
    MultiRunFailed(mlast)
        => \A n \in Registered(defs) :
               UpdateCompleted(mlast, n)
                   => /\ Version(stores[n]) = Target(DescOf(n))
                      /\ VersionVerifies(Begin(stores[n]), DescOf(n), Target(DescOf(n)))
                      /\ HoldsDeclared(stores[n], DescOf(n), Target(DescOf(n)))
                      /\ stores[n] # mlast.upd[n]

\* a run failed after it had completed the update of another database
C20_Witness ==
    /\ MultiRunFailed(mlast)
    /\ \E n \in Registered(defs) : UpdateCompleted(mlast, n)

\* the reasons of the prompt=true transitions that the databases ds in need
\* of an update have above their stamped versions, in registration order; a
\* database without a stamped version is jumpstarted and has none
RECURSIVE DueReasons(_, _)
DueReasons(sts, ds) ==
    IF ds = <<>> THEN <<>>
    ELSE LET s == sts[Head(ds).name]
             desc == Defs[Head(ds).def]
         IN (IF Needed(Begin(s), desc) /\ Version(s) # None
             THEN ReasonsAbove(s, desc) ELSE <<>>)
            \o DueReasons(sts, Tail(ds))

\* ensure_requirements() without a name came to evaluate MultiUpdater.agreed
AgreedEvaluated(call) ==
    /\ call.op = "ensure"
    /\ call.name = ""
    /\ ~ call.auto
    /\ \E n \in Registered(call.predefs) : Needed(Begin(call.upd[n]), DescOf(n))
    /\ ~ (call.err # "" /\ \A n \in Names : EventsOf(call.log[n], {"run"}) = {})

\* C21: MultiUpdater.agreed issues at most one consent request, and the
\* reasons in it are exactly the prompted transition reasons of the
\* databases that need an update; a database whose needed is false
\* contributes no reason.
C21_MultiAgreedAsksOnceForNeededOnly ==
    AgreedEvaluated(mlast)
        => /\ Len(mlast.asked) <= 1
           /\ mlast.asked = (IF DueReasons(mlast.upd, defs) = <<>> THEN <<>>
                             ELSE <<JoinItems(DueReasons(mlast.upd, defs))>>)

\* ------------------------------------------------------------ properties of definitions
\* a type declares more than one Id, or a property has a type that is none
\* of int, float, str, bytes
Invalid(desc) ==
    \E v \in DOMAIN desc.versions :
        \E i \in 1..Len(desc.versions[v].types) :
            LET props == desc.versions[v].types[i].props IN
            \/ Cardinality({j \in 1..Len(props) : props[j].kind = "id"}) > 1
            \/ \E j \in 1..Len(props) :
                   props[j].kind = "prop" /\ props[j].type \notin {"int", "float", "str", "bytes"}

\* C22: a definition in which a type declares more than one Id, or a
\* property has a type outside {int, float, str, bytes}, is rejected when
\* it is constructed or registered, before any store is opened or modified:
\* no call made with such a definition ends without an error, and none
\* changes the store.
C22_InvalidDefinitionRejectedBeforeStore ==
    (Invalid(Desc) /\ last.op \notin {"init", "require"})
        => /\ last.err # ""
           /\ store = last.pre

\* ------------------------------------------------------------ properties of verification
\* C23: verify asserts strict equality between live and declared schema:
\* TableDescriptor.verify fails when the live table lacks a declared column
\* as well as when it has a column that is not declared or differs, and
\* verification of a version fails when the store has an index that is not
\* declared as well as when a declared index is missing. So when verify()
\* passes, every declared table holds exactly the declared columns and the
\* indexes of the store are exactly the declared ones.
C23_VerifyIsStrictEquality ==
    (last.op = "verify" /\ last.err = "")
        => /\ TablesAsDeclared(store, Desc, Target(Desc))
           /\ store.indexes = IndexNormals(Indexes(Desc, Target(Desc)))

\* ------------------------------------------------------------ properties of construction
\* every table and every column of store s is in store t
KeepsTablesAndColumns(s, t) ==
    \A n \in DOMAIN s.tables :
        /\ n \in DOMAIN t.tables
        /\ ColumnNames(s.tables[n]) \subseteq ColumnNames(t.tables[n])

\* C24: constructing an Updater for a database that already has a stamped
\* version v reconciles the store additively to version v and then verifies
\* it; when the store cannot be reconciled to v, construction fails with an
\* error, and in doing so it drops no table and no column and writes no
\* version stamp.
C24_ConstructionReconcilesStampedVersion ==
    (last.op = "construct" /\ Version(last.pre) # None)
        => /\ KeepsTablesAndColumns(last.pre, store)
           /\ last.err = ""
                  => /\ Version(store) = Version(last.pre)
                     /\ HoldsDeclared(store, Desc, Version(last.pre))
                     /\ VersionVerifies(Begin(store), Desc, Version(last.pre))
           /\ last.err # ""
                  => /\ store.meta = last.pre.meta
                     /\ EventsOf(last.log, {"stamp", "drop_table"}) = {}

\* ------------------------------------------------------------ properties of the tracking table
\* the versions of the stamps of a log, in order
RECURSIVE StampsOf(_)
StampsOf(log) ==
    IF log = <<>> THEN <<>>
    ELSE (IF Head(log).kind = "stamp" THEN <<Head(log).ver>> ELSE <<>>) \o StampsOf(Tail(log))

\* C25: version stamping is append-only: every stamp inserts one new
\* tracking row and no run or construction ever deletes or overwrites an
\* existing tracking row, so the tracking table lists every version the
\* database was stamped with.
C25_StampingAppendsRows ==
    last.op \in {"construct", "run", "ensure", "agreed"}
        => store.meta = last.pre.meta \o StampsOf(last.log)

\* a call stamped a database whose tracking table held rows already
C25_Witness ==
    /\ last.op \in {"construct", "run", "ensure"}
    /\ last.pre.meta # <<>>
    /\ StampsOf(last.log) # <<>>
    /\ store.meta = last.pre.meta \o StampsOf(last.log)

\* C26: the implicit version-0 stamp of an unversioned non-empty database
\* is written once: over any sequence of Updater constructions (and
\* ensure_requirements calls) on the same database, at most one tracking
\* row with version 0 is written by adoption, and a database that already
\* has a stamped version is not stamped again at construction.
C26_AdoptionStampWrittenOnce ==
    (last.op \in {"construct", "ensure", "resetdb"} /\ Version(last.pre) # None)
        => last.upd.meta = last.pre.meta

\* ------------------------------------------------------------ properties of redeclaration
TypeNames(vdef) == {vdef.types[i].name : i \in 1..Len(vdef.types)}

PropsOf(vdef, t) == vdef.types[CHOOSE i \in 1..Len(vdef.types) : vdef.types[i].name = t].props

\* version definition new is no additive-only change of old: a type or a
\* property is gone (removed or renamed), a property has another storage
\* type or another notNull, or an Id is added or removed
NonAdditive(old, new) ==
    \/ TypeNames(old) \ TypeNames(new) # {}
    \/ \E t \in TypeNames(old) \cap TypeNames(new) :
           LET po == PropsOf(old, t)
               pn == PropsOf(new, t)
           IN \/ \E i \in 1..Len(po) : \A j \in 1..Len(pn) : pn[j].name # po[i].name
              \/ \E i \in 1..Len(po), j \in 1..Len(pn) :
                     /\ pn[j].name = po[i].name
                     /\ \/ pn[j].kind # po[i].kind
                        \/ NormalizeDatatype(pn[j].type) # NormalizeDatatype(po[i].type)
                        \/ Truthy(pn[j].notnull) # Truthy(po[i].notnull)
              \/ \E j \in 1..Len(pn) :
                     pn[j].kind = "id" /\ \A i \in 1..Len(po) : po[i].name # pn[j].name

\* store s is stamped v and holds the tables that desc declares for v, and
\* no other
ExactlyAt(s, desc, v) ==
    /\ Version(s) = v
    /\ TablesAsDeclared(s, desc, v)
    /\ DOMAIN s.tables = TableNamesOf(Tables(desc, v)) \cup {MetaName}

\* the Updater was constructed on a database that is at version v of one
\* definition, with a definition whose version v is no additive-only change
\* of it
RedeclaredNonAdditive(call, desc) ==
    /\ call.op = "construct"
    /\ Version(call.pre) # None
    /\ Declared(desc, Version(call.pre))
    /\ \E x \in WellFormed :
           /\ ExactlyAt(call.pre, Defs[x], Version(call.pre))
           /\ NonAdditive(Defs[x].versions[Version(call.pre)], desc.versions[Version(call.pre)])

\* C27: a redeclaration of the stamped version that is not additive-only
\* (removing or renaming a type or a property, changing a property's storage
\* type, changing notNull, adding or removing an Id) is never accepted
\* silently: constructing the Updater against the existing store fails
\* instead of reporting the database consistent with that version.
C27_NonAdditiveRedeclarationFails ==
    RedeclaredNonAdditive(last, Desc) => last.err # ""


\* ---- properties of the order of the steps of run() ----

SchemaEvents ==
    {"script", "stmt", "create_table", "add_column", "drop_table",
     "create_index", "drop_index"}

StepHasScript(desc, vnum) ==
    /\ desc.versions[vnum].transition.set
    /\ desc.versions[vnum].transition.sql # <<>>

\* the stamp at position i of the log of a run closes the step of its version
StampClosesStep(call, desc, i) ==
    LET n == call.log[i].ver IN
    /\ Declared(desc, n)
    /\ i < Len(call.log)
           => /\ call.log[i + 1] = Event("verified", n, "")
              /\ i + 1 < Len(call.log) => call.log[i + 2].kind = "step"
    /\ Version(call.pre) # None
           => /\ \E k \in 1..(i - 1) : call.log[k] = Event("step", n, "")
              /\ StepHasScript(desc, n)
                     => \E k \in 1..(i - 1) : call.log[k] = Event("script", n, "")
              /\ \A k \in 1..(i - 1) :
                     call.log[k].kind \in SchemaEvents
                         => \E j \in 1..k : /\ call.log[j].kind = "step"
                                            /\ call.log[j].ver <= n

\* C28: within one run() the version stamps are written in strictly
\* ascending order, every stamp is of a declared version and is written after
\* the transition script and the reconciliation of that version and before
\* anything of a later version, and a gap in the declared numbers raises no
\* error: a run that succeeds has stamped every declared version above the
\* stamped one up to the target.
C28_RunStampsAscendAfterOwnStep ==
    last.op = "run"
        => /\ \A i, j \in EventsOf(last.log, {"stamp"}) :
                  i < j => last.log[i].ver < last.log[j].ver
           /\ \A i \in EventsOf(last.log, {"stamp"}) : StampClosesStep(last, Desc, i)
           /\ last.err # "AttributeError"
           /\ (last.err = "" /\ Version(last.pre) # None)
                  => /\ \A n \in DOMAIN Desc.versions :
                            Version(last.pre) < n
                                => \E i \in EventsOf(last.log, {"stamp"}) : last.log[i].ver = n
                     /\ Version(store) = Target(Desc)

\* a run over the gap of DefLeftover that wrote more than one stamp
C28_Witness ==
    /\ last.op = "run"
    /\ last.err = ""
    /\ Version(last.pre) # None
    /\ ~ Declared(Desc, Version(last.pre) + 1)
    /\ Len(StampsOf(last.log)) >= 2
    /\ \E i \in EventsOf(last.log, {"create_index"}) : TRUE


\* ---- properties of index reconciliation ----

\* a declared index of version v has the name of an index of the store that
\* differs from it in table, keys or uniqueness
NameTaken(s, desc, v) ==
    \E i \in s.indexes : \E d \in IndexNormals(Indexes(desc, v)) :
        i.name = d.name /\ i # d

\* the call constructed an Updater on a database stamped with a declared
\* version whose tables are as declared, so that index reconciliation is all
\* that is left to do
ReconciledIndexes(call, desc) ==
    /\ call.op = "construct"
    /\ Version(call.pre) # None
    /\ TablesAsDeclared(call.pre, desc, Version(call.pre))

\* C29: after index reconciliation for a version the indexes of the store
\* are exactly the indexes declared for that version, compared by name,
\* table, key columns and uniqueness, also when a declared index has the name
\* of an index of the store with different keys or uniqueness.
C29_IndexesEqualDeclared ==
    ReconciledIndexes(last, Desc)
        => /\ last.err = ""
           /\ store.indexes = IndexNormals(Indexes(Desc, Version(last.pre)))


\* ---- properties of the indexes the store makes by itself ----

\* the names of the types of every version of every definition
DeclaredTypeNames ==
    UNION {UNION {TypeNames(Defs[d].versions[v]) : v \in DOMAIN Defs[d].versions} :
           d \in 1..Len(Defs)}

SystemIndexNames == {ConstraintIndexName(t, k) : t \in DeclaredTypeNames, k \in 1..2}

\* C30: index reconciliation leaves the indexes the store made by itself for
\* a UNIQUE or PRIMARY KEY constraint out of the comparison: no call tries
\* to drop such an index, so none fails on one.
C30_SystemIndexesNeverDropped ==
    \A i \in EventsOf(last.log, {"drop_index"}) : last.log[i].name \notin SystemIndexNames


\* ---- properties of table reconciliation ----

\* every table of s is in t with the columns it had, unchanged and in place
TablesUntouched(s, t) ==
    \A n \in DOMAIN s.tables :
        /\ n \in DOMAIN t.tables
        /\ Len(s.tables[n]) <= Len(t.tables[n])
        /\ SubSeq(t.tables[n], 1, Len(s.tables[n])) = s.tables[n]

\* a live column of store s that version v of desc does not declare
UndeclaredColumn(s, desc, v) ==
    \E k \in 1..Len(Tables(desc, v)) :
        LET tab == Tables(desc, v)[k] IN
        /\ tab.tablename \in DOMAIN s.tables
        /\ ~ (ColumnNames(s.tables[tab.tablename]) \subseteq ColumnNames(tab.columns))

\* C31: table reconciliation only creates missing tables and adds missing
\* columns: a call that ran no transition script drops no table, drops no
\* column and changes no existing column, also when a live column is absent
\* from the definition.
C31_TableReconciliationOnlyAdds ==
    (last.op \in {"construct", "run", "ensure"} /\ EventsOf(last.log, {"script", "stmt"}) = {})
        => /\ TablesUntouched(last.pre, store)
           /\ EventsOf(last.log, {"drop_table"}) = {}

\* a construction that met an undeclared live column and added a table or a
\* column
C31_Witness ==
    /\ last.op = "construct"
    /\ Version(last.pre) # None
    /\ Declared(Desc, Version(last.pre))
    /\ UndeclaredColumn(last.pre, Desc, Version(last.pre))
    /\ EventsOf(last.log, {"create_table", "add_column"}) # {}
    /\ TablesUntouched(last.pre, store)
    /\ store.tables # last.pre.tables


\* ---- properties of columns that differ from their declaration ----

\* a column that is in a table of store s and in version v of desc, and
\* whose normal forms differ
ColumnDiffers(s, desc, v) ==
    \E k \in 1..Len(Tables(desc, v)) :
        LET tab == Tables(desc, v)[k] IN
        /\ tab.tablename \in DOMAIN s.tables
        /\ \E i \in 1..Len(s.tables[tab.tablename]) :
               LET live == ColumnFromRowinfo(s.tables[tab.tablename][i]) IN
               /\ live.name \in ColumnNames(tab.columns)
               /\ ColumnNormal(live) # ColumnNormal(ColumnByName(tab.columns, live.name))

\* the call ended without an error or with the store refusing to add
\* another column
NoErrorButRefusedAdd(call) ==
    \/ call.err = ""
    \/ /\ call.err = "OperationalError"
       /\ call.log # <<>>
       /\ call.log[Len(call.log)].kind = "add_column"

\* C32: a column that is in the store and in the definition and differs
\* from its declaration is tolerated by reconciliation, which raises no
\* error for it and leaves the column as it is, and is rejected by verify,
\* which fails on the same store and definition.
C32_DifferingColumnToleratedThenRejected ==
    ColumnDiffers(last.pre, Desc, Version(last.pre))
        => /\ last.op = "verify" => last.err = "AssertionError"
           /\ last.op = "reconcile"
                  => /\ NoErrorButRefusedAdd(last)
                     /\ TablesUntouched(last.pre, store)
                     /\ ColumnDiffers(store, Desc, Version(store))

\* a reconciliation that met a differing column, changed the store and
\* raised nothing
C32_Witness ==
    /\ last.op = "reconcile"
    /\ ColumnDiffers(last.pre, Desc, Version(last.pre))
    /\ last.err = ""
    /\ store # last.pre
    /\ ~ VersionVerifies(Begin(store), Desc, Version(store))


\* ---- properties of the order of construction and migration ----

\* ensure_requirements() without a name, with a registered database whose
\* Updater cannot be constructed
ConstructionFails(call) ==
    /\ call.op = "ensure"
    /\ call.name = ""
    /\ \E n \in Registered(defs) :
           \A env \in MultiEnvs : UpdaterInit(Begin(call.pre[n]), DescOf(n), env).err # ""

\* C33 as stated: when the construction-time check of one database fails,
\* ensure_requirements() without a name runs no transition script and writes
\* no stamp of the target version in any database.
C33_NoTargetStampWhenCheckFails ==
    ConstructionFails(mlast)
        => \A n \in Registered(defs) :
               /\ EventsOf(mlast.log[n], {"script", "stmt"}) = {}
               /\ \A i \in EventsOf(mlast.log[n], {"stamp"}) :
                      mlast.log[n][i].ver # Target(DescOf(n))

\* C33: the construction-time check of every registered database runs
\* before the migration of any database starts: when the check of one
\* database fails, the call raises, no database's run() is started, no
\* transition script is run, and the only stamps written are the stamps 0
\* that construction writes.
C33_ChecksBeforeAnyMigration ==
    ConstructionFails(mlast)
        => /\ mlast.res = "error"
           /\ \A n \in Names :
                  /\ EventsOf(mlast.log[n], {"run", "step", "script", "stmt"}) = {}
                  /\ \A i \in EventsOf(mlast.log[n], {"stamp"}) : mlast.log[n][i].ver = 0
                  /\ Version(stores[n]) \in {Version(mlast.pre[n]), 0}

\* the check of the second database failed after the first had been
\* constructed and needed an update
C33_Witness ==
    /\ ConstructionFails(mlast)
    /\ Len(defs) = 2
    /\ mlast.errs[defs[2].name] # ""
    /\ mlast.errs[defs[1].name] = ""
    /\ Needed(Begin(stores[defs[1].name]), DescOf(defs[1].name))
    /\ mlast.log[defs[1].name] # <<>>


\* ---- properties of the stamped version over a sequence of calls ----

\* C34: in every step that is no reset, the stamped version of the database
\* (the maximum over the tracking rows, unset counting as below every
\* version) does not decrease, and it does not rise above the maximum
\* declared version.
C34_VersionMonotoneAndBounded ==
    [][last'.op \notin {"reset", "resetdb"}
           => /\ Version(store') >= Version(store)
              /\ Version(store') > Version(store) => Version(store') <= Target(Desc')]_vars

\* a run that raised the stamped version of a database that had one
C34_Witness ==
    /\ last.op = "run"
    /\ Version(last.pre) # None
    /\ Version(store) > Version(last.pre)
    /\ Version(store) = Target(Desc)


\* ---- properties of the construction that follows a reset ----

\* C35: the Updater constructed next after a reset of the database finds it
\* uninitialized: construction writes no stamp and leaves the stamped
\* version unset, so that the following run() takes the jumpstart path,
\* whatever version the database was stamped at before the reset.
C35_ConstructionAfterResetFindsUnset ==
    [][(/\ last.op \in {"reset", "resetdb"}
        /\ last.err = ""
        /\ last'.op = "construct")
           => /\ EventsOf(last'.log, {"stamp"}) = {}
              /\ Version(store') = None]_vars


\* ---- properties of the reset of a database that does not verify ----

\* the store is stamped with a declared version and a table of that version
\* has a column the version does not declare
Inconsistent(s, desc) ==
    /\ Version(s) # None
    /\ Declared(desc, Version(s))
    /\ UndeclaredColumn(s, desc, Version(s))

\* C36: resetdb(name) resets a database whose stored state is inconsistent
\* with its stamped version: the reset is carried out although the
\* construction-time reconciliation and verification of the database cannot
\* succeed.
C36_ResetdbOfInconsistentDatabase ==
    (last.op = "resetdb" /\ Inconsistent(last.pre, Desc))
        => /\ last.err = ""
           /\ Version(store) = None
           /\ EventsOf(last.log, {"drop_table"}) # {}


\* ---- properties of construction at a version that is not declared ----

\* C37: an unversioned database with content is adopted also when the
\* definition declares no version 0: construction stamps it 0 and completes;
\* and construction for a database stamped at a version number the
\* definition does not declare ends in the consistency error of the
\* constructor, not in another failure.
C37_UndeclaredVersionAtConstruction ==
    last.op = "construct"
        => /\ (Unversioned(last.pre) /\ ~ Declared(Desc, 0))
                  => /\ last.err = ""
                     /\ Version(store) = 0
           /\ (Version(last.pre) # None /\ ~ Declared(Desc, Version(last.pre)))
                  => last.err = "AssertionError"


\* ---- properties of require() with a definition that cannot be built ----

\* C38: require is all-or-nothing for every kind of failure: when it raises
\* because a definition of the mapping is malformed, none of the names of
\* the mapping has been added to the registry.
C38_RequireAllOrNothing ==
    (mlast.op = "require" /\ mlast.err # "") => defs = mlast.predefs

====
